---- MODULE Spec2Model ----
(***************************************************************************)
(* JSBON (JavaScript Binary Object Notation): the Encoder / Decoder pair,  *)
(* its count (varint) codec, its CRC-32 and its number tagging.            *)
(*                                                                         *)
(* Bytes are naturals 0..255.  A 32-bit word is a tuple of four bytes,     *)
(* most significant first (the wire is big-endian).  A JavaScript number   *)
(* is a record: kind "dy" is the dyadic rational                           *)
(*      (-1)^neg * (hi * 65536 + lo + frac / 2)                            *)
(* and kind "raw" is any other double, kept as its eight IEEE-754 bytes.   *)
(***************************************************************************)
EXTENDS Integers, Sequences, FiniteSets, TLC

(***************************************************************************)
(* Bounds of the model.                                                    *)
(***************************************************************************)
NumContainers == 2
MaxLen == 2
MaxSlots == 3

(***************************************************************************)
(* Bit operations on bytes and 32-bit words.                               *)
(***************************************************************************)
BitOf(a, i) == (a \div (2 ^ i)) % 2

XorNib == [a \in 0..15 |-> [b \in 0..15 |->
             ((BitOf(a, 0) + BitOf(b, 0)) % 2)
           + 2 * ((BitOf(a, 1) + BitOf(b, 1)) % 2)
           + 4 * ((BitOf(a, 2) + BitOf(b, 2)) % 2)
           + 8 * ((BitOf(a, 3) + BitOf(b, 3)) % 2)]]

OrNib == [a \in 0..15 |-> [b \in 0..15 |->
             (IF BitOf(a, 0) + BitOf(b, 0) > 0 THEN 1 ELSE 0)
           + (IF BitOf(a, 1) + BitOf(b, 1) > 0 THEN 2 ELSE 0)
           + (IF BitOf(a, 2) + BitOf(b, 2) > 0 THEN 4 ELSE 0)
           + (IF BitOf(a, 3) + BitOf(b, 3) > 0 THEN 8 ELSE 0)]]

Xor8(a, b) == 16 * XorNib[a \div 16][b \div 16] + XorNib[a % 16][b % 16]

Or8(a, b) == 16 * OrNib[a \div 16][b \div 16] + OrNib[a % 16][b % 16]

XorW(x, y) == <<Xor8(x[1], y[1]), Xor8(x[2], y[2]), Xor8(x[3], y[3]), Xor8(x[4], y[4])>>

OrW(x, y) == <<Or8(x[1], y[1]), Or8(x[2], y[2]), Or8(x[3], y[3]), Or8(x[4], y[4])>>

\* x >>> 1
Shr1(x) == << x[1] \div 2,
              (x[2] \div 2) + 128 * (x[1] % 2),
              (x[3] \div 2) + 128 * (x[2] % 2),
              (x[4] \div 2) + 128 * (x[3] % 2) >>

\* the word y shifted left by less than 8 bits: m is 2 to the number of bits
ShlBits(y, m) == << ((y[1] * m) % 256) + ((y[2] * m) \div 256),
                    ((y[2] * m) % 256) + ((y[3] * m) \div 256),
                    ((y[3] * m) % 256) + ((y[4] * m) \div 256),
                    (y[4] * m) % 256 >>

\* x << k, truncated to 32 bits: JavaScript takes the shift count modulo 32;
\* whole bytes are shifted first, then the remaining bits
ShlW(x, k) ==
    ShlBits(SubSeq(x, ((k % 32) \div 8) + 1, 4) \o SubSeq(<<0, 0, 0, 0>>, 1, (k % 32) \div 8),
            2 ^ ((k % 32) % 8))

\* two's complement negation of a word
NegW(x) ==
    LET n4 == (256 - x[4]) % 256
        c4 == IF x[4] = 0 THEN 1 ELSE 0
        n3 == (255 - x[3] + c4) % 256
        c3 == IF x[3] = 0 /\ c4 = 1 THEN 1 ELSE 0
        n2 == (255 - x[2] + c3) % 256
        c2 == IF x[2] = 0 /\ c3 = 1 THEN 1 ELSE 0
        n1 == (255 - x[1] + c2) % 256
    IN  <<n1, n2, n3, n4>>

(***************************************************************************)
(* CRC-32                                                                  *)
(***************************************************************************)
\* 3988292384 = 0xEDB88320
CrcPoly == <<237, 184, 131, 32>>

RECURSIVE CrcTableEntry(_, _)
CrcTableEntry(tmp, k) ==
    IF k = 0 THEN tmp
    ELSE CrcTableEntry(IF tmp[4] % 2 = 1 THEN XorW(CrcPoly, Shr1(tmp)) ELSE Shr1(tmp), k - 1)

CrcTable == [i \in 0..255 |-> CrcTableEntry(<<0, 0, 0, i>>, 8)]

RECURSIVE CrcLoop(_, _, _)
\* crc = (crc >>> 8) ^ table[(crc ^ data[i]) & 0xFF] for each byte from i on;
\* crc is a word, and testing its length has it computed before the next
\* iteration starts
CrcLoop(crc, data, i) ==
    IF Len(crc) # 4 \/ i > Len(data) THEN crc
    ELSE CrcLoop(XorW(<<0, crc[1], crc[2], crc[3]>>, CrcTable[Xor8(crc[4], data[i])]), data, i + 1)

\* the unsigned 32-bit checksum of a byte sequence, as a word
crc32(data) == XorW(CrcLoop(<<255, 255, 255, 255>>, data, 1), <<255, 255, 255, 255>>)

(***************************************************************************)
(* JavaScript numbers                                                      *)
(***************************************************************************)
NumHL(neg, hi, lo, frac) ==
    [k |-> "dy", neg |-> neg, hi |-> hi, lo |-> lo, frac |-> frac, raw |-> <<>>]

NumRaw(bytes) ==
    [k |-> "raw", neg |-> FALSE, hi |-> 0, lo |-> 0, frac |-> 0, raw |-> bytes]

\* a small integer of the model as a number
NumOf(n) == IF n < 0 THEN NumHL(TRUE, (0 - n) \div 65536, (0 - n) % 65536, 0)
            ELSE NumHL(FALSE, n \div 65536, n % 65536, 0)

\* ToUint32 of the abstract operations: truncate, then modulo 2^32
ToUint32W(x) ==
    IF x.k = "raw" THEN <<0, 0, 0, 0>>
    ELSE LET m == << (x.hi % 65536) \div 256, x.hi % 256, x.lo \div 256, x.lo % 256 >>
         IN  IF x.neg THEN NegW(m) ELSE m

\* a word read as an unsigned number
WordToNumU(w) == NumHL(FALSE, 256 * w[1] + w[2], 256 * w[3] + w[4], 0)

\* a word read as a signed number
WordToNumS(w) ==
    IF w[1] >= 128
    THEN LET m == NegW(w) IN NumHL(TRUE, 256 * m[1] + m[2], 256 * m[3] + m[4], 0)
    ELSE WordToNumU(w)

\* a word read as a signed number that fits the integers of the model
WordToInt(w) ==
    IF w[1] >= 128
    THEN (w[1] - 256) * 16777216 + w[2] * 65536 + w[3] * 256 + w[4]
    ELSE w[1] * 16777216 + w[2] * 65536 + w[3] * 256 + w[4]

\* a === b
NumEq(a, b) == a.k = "dy" /\ b.k = "dy" /\ a = b

\* a < b, for "dy" numbers
NumLt(a, b) ==
    LET MagLt(x, y) == \/ x.hi < y.hi
                       \/ x.hi = y.hi /\ x.lo < y.lo
                       \/ x.hi = y.hi /\ x.lo = y.lo /\ x.frac < y.frac
    IN  IF a.neg /\ ~b.neg THEN TRUE
        ELSE IF ~a.neg /\ b.neg THEN FALSE
        ELSE IF a.neg THEN MagLt(b, a)
        ELSE MagLt(a, b)

NumLe(a, b) == a = b \/ NumLt(a, b)

(***************************************************************************)
(* Bit sequences (most significant bit first) and IEEE-754 doubles.        *)
(***************************************************************************)
BitsOf(n, w) == [i \in 1..w |-> BitOf(n, w - i)]

RECURSIVE FromBits(_)
FromBits(s) == IF s = <<>> THEN 0
               ELSE 2 * FromBits(SubSeq(s, 1, Len(s) - 1)) + s[Len(s)]

RECURSIVE StripZeros(_)
StripZeros(s) == IF s = <<>> THEN s
                 ELSE IF s[1] = 0 THEN StripZeros(Tail(s)) ELSE s

Zeros(n) == [i \in 1..n |-> 0]

\* DataView.setFloat64, big-endian
writeFloat64(x) ==
    IF x.k = "raw" THEN x.raw
    ELSE LET s == StripZeros(BitsOf(x.hi, 17) \o BitsOf(x.lo, 16) \o <<x.frac>>)
             bits == <<IF x.neg THEN 1 ELSE 0>> \o BitsOf(1023 + Len(s) - 2, 11)
                        \o Tail(s) \o Zeros(52 - (Len(s) - 1))
         IN  IF s = <<>> THEN Zeros(8)
             ELSE [i \in 1..8 |-> FromBits(SubSeq(bits, 8 * i - 7, 8 * i))]

\* DataView.getFloat64, big-endian
readFloat64(bytes) ==
    LET bits == BitsOf(bytes[1], 8) \o BitsOf(bytes[2], 8) \o BitsOf(bytes[3], 8)
                \o BitsOf(bytes[4], 8) \o BitsOf(bytes[5], 8) \o BitsOf(bytes[6], 8)
                \o BitsOf(bytes[7], 8) \o BitsOf(bytes[8], 8)
        e == FromBits(SubSeq(bits, 2, 12))
        f == SubSeq(bits, 13, 64)
        len == e - 1023 + 2
        s == Zeros(34 - len) \o <<1>> \o SubSeq(f, 1, len - 1)
    IN  IF bytes = Zeros(8) THEN NumHL(FALSE, 0, 0, 0)
        ELSE IF len >= 1 /\ len <= 34 /\ SubSeq(f, len, 52) = Zeros(52 - (len - 1))
        THEN NumHL(bits[1] = 1, FromBits(SubSeq(s, 1, 17)), FromBits(SubSeq(s, 18, 33)), s[34])
        ELSE NumRaw(bytes)

(***************************************************************************)
(* Data type tags and option flags                                         *)
(***************************************************************************)
MAJOR_VERSION == 1
TAG_BOOLEAN_FALSE == 0
TAG_BOOLEAN_TRUE == 1
TAG_INT8 == 2
TAG_INT16 == 3
TAG_INT32 == 4
TAG_NULL == 5
TAG_UNDEFINED == 6
TAG_OBJECT_REF == 7
TAG_NUMBER == 9
TAG_UINT8 == 18
TAG_UINT16 == 19
TAG_UINT32 == 20
TAG_STRING_REF == 22
TAG_DATE == 32
TAG_OBJECT == 48
TAG_ARRAY == 49
TAG_UINT8ARRAY == 50
OPTION_CRC32 == 128
OPTION_NOCYCLE == 64

(***************************************************************************)
(* Number tagging                                                          *)
(***************************************************************************)
\* value >>> 0
UShr0(value) == WordToNumU(ToUint32W(value))

\* value | 0
Or0(value) == WordToNumS(ToUint32W(value))

\* value & 0xFF and value & 0xFFFF
AndFF(value) == LET w == ToUint32W(value) IN WordToNumS(<<0, 0, 0, w[4]>>)

AndFFFF(value) == LET w == ToUint32W(value) IN WordToNumS(<<0, 0, w[3], w[4]>>)

getNumberTag_signedOnly(value) ==
    IF NumEq(value, Or0(value))
    THEN IF NumLe(NumOf(-128), value) /\ NumLe(value, NumOf(127)) THEN TAG_INT8
         ELSE IF NumLe(NumOf(-32768), value) /\ NumLe(value, NumOf(32767)) THEN TAG_INT16
         ELSE TAG_INT32
    ELSE TAG_NUMBER

getNumberTag(value) ==
    IF NumEq(value, UShr0(value))
    THEN IF NumEq(AndFF(value), value) THEN TAG_UINT8
         ELSE IF NumEq(AndFFFF(value), value) THEN TAG_UINT16
         ELSE TAG_UINT32
    ELSE IF NumEq(value, Or0(value))
    THEN IF NumLe(NumOf(-128), value) /\ NumLe(value, NumOf(127)) THEN TAG_INT8
         ELSE IF NumLe(NumOf(-32768), value) /\ NumLe(value, NumOf(32767)) THEN TAG_INT16
         ELSE TAG_INT32
    ELSE TAG_NUMBER

\* the bytes serializeNumber writes after the tag
serializeNumber(value, tag) ==
    LET w == ToUint32W(value)
    IN  IF tag = TAG_INT8 \/ tag = TAG_UINT8 THEN <<w[4]>>
        ELSE IF tag = TAG_INT16 \/ tag = TAG_UINT16 THEN <<w[3], w[4]>>
        ELSE IF tag = TAG_INT32 \/ tag = TAG_UINT32 THEN w
        ELSE writeFloat64(value)

(***************************************************************************)
(* Count values (varints)                                                  *)
(***************************************************************************)
\* value >>> 7
UShr7(value) == NumHL(FALSE, value.hi \div 128, (value.hi % 128) * 512 + value.lo \div 128, 0)

RECURSIVE CountBytes(_)
CountBytes(value) ==
    IF NumLe(NumOf(128), value)
    THEN <<(value.lo % 128) + 128>> \o CountBytes(UShr7(value))
    ELSE <<value.lo>>

\* err is "count" when the value is not an unsigned 32-bit integer
serializeCount(value) ==
    IF ~NumEq(UShr0(value), value) THEN [err |-> "count", bytes |-> <<>>]
    ELSE [err |-> "", bytes |-> CountBytes(value)]

\* the bytes of a count the walk writes: a position, a length or an index
Count(n) == serializeCount(NumOf(n)).bytes

\* The byte stream reader: a read past the end of the buffer throws (err "range").
\* Positions are counted from 0, as ds.position is; buf[pos + 1] is the byte at pos.
readUint8(buf, pos) ==
    IF pos >= Len(buf) THEN [err |-> "range", v |-> 0, pos |-> pos]
    ELSE [err |-> "", v |-> buf[pos + 1], pos |-> pos + 1]

\* n raw bytes (readUint8Array(n), and the operand of the typed reads)
readBytes(buf, pos, n) ==
    IF n < 0 \/ n > Len(buf) - pos THEN [err |-> "range", v |-> <<>>, pos |-> pos]
    ELSE [err |-> "", v |-> SubSeq(buf, pos + 1, pos + n), pos |-> pos + n]

RECURSIVE CountLoop(_, _, _, _)
\* do { b = readUint8(); value |= (b & 0x7F) << 7 * c; c += 1 } while ((b & 0x80) !== 0)
CountLoop(buf, pos, c, value) ==
    LET r == readUint8(buf, pos)
        nv == OrW(value, ShlW(<<0, 0, 0, r.v % 128>>, 7 * c))
    IN  IF r.err # "" THEN [err |-> r.err, w |-> value, pos |-> pos]
        ELSE IF r.v >= 128 THEN CountLoop(buf, r.pos, c + 1, nv)
        ELSE [err |-> "", w |-> nv, pos |-> r.pos]

\* the count read at pos: w is the 32-bit pattern of the (signed) result
\* variant: a count that starts at the end of the buffer reads as 0
unserializeCount_zeroAtEnd(buf, pos) ==
    IF pos >= Len(buf) THEN [w |-> <<0, 0, 0, 0>>, err |-> "", pos |-> pos]
    ELSE CountLoop(buf, pos, 0, <<0, 0, 0, 0>>)

unserializeCount(buf, pos) == CountLoop(buf, pos, 0, <<0, 0, 0, 0>>)

(***************************************************************************)
(* Strings are sequences of code points.  UTF-8 and C strings.             *)
(***************************************************************************)
Utf8OfChar(cp) ==
    IF cp < 128 THEN <<cp>>
    ELSE IF cp < 2048 THEN <<192 + (cp \div 64), 128 + (cp % 64)>>
    ELSE IF cp < 65536
    THEN <<224 + (cp \div 4096), 128 + ((cp \div 64) % 64), 128 + (cp % 64)>>
    ELSE <<240 + (cp \div 262144), 128 + ((cp \div 4096) % 64),
           128 + ((cp \div 64) % 64), 128 + (cp % 64)>>

RECURSIVE encode_utf8(_)
encode_utf8(s) == IF s = <<>> THEN <<>> ELSE Utf8OfChar(s[1]) \o encode_utf8(Tail(s))

IsCont(b, i) == i <= Len(b) /\ b[i] >= 128 /\ b[i] <= 191

RECURSIVE decode_utf8(_)
\* err is "utf8" when the bytes are not well-formed UTF-8 (decodeURIComponent throws)
decode_utf8(b) ==
    IF b = <<>> THEN [err |-> "", s |-> <<>>]
    ELSE LET n == IF b[1] < 128 THEN 1
                  ELSE IF b[1] >= 194 /\ b[1] <= 223 THEN 2
                  ELSE IF b[1] >= 224 /\ b[1] <= 239 THEN 3
                  ELSE IF b[1] >= 240 /\ b[1] <= 244 THEN 4
                  ELSE 0
             ok == /\ n > 0
                   /\ \A i \in 2..n : IsCont(b, i)
             cp == IF n = 1 THEN b[1]
                   ELSE IF n = 2 THEN (b[1] - 192) * 64 + (b[2] - 128)
                   ELSE IF n = 3 THEN (b[1] - 224) * 4096 + (b[2] - 128) * 64 + (b[3] - 128)
                   ELSE (b[1] - 240) * 262144 + (b[2] - 128) * 4096
                        + (b[3] - 128) * 64 + (b[4] - 128)
             wellformed == /\ ok
                           /\ n = 3 => cp >= 2048 /\ ~(cp >= 55296 /\ cp <= 57343)
                           /\ n = 4 => cp >= 65536 /\ cp <= 1114111
             rest == decode_utf8(SubSeq(b, n + 1, Len(b)))
         IN  IF ~wellformed THEN [err |-> "utf8", s |-> <<>>]
             ELSE IF rest.err # "" THEN rest
             ELSE [err |-> "", s |-> <<cp>> \o rest.s]

\* the characters of s, then a terminating NUL
writeCString(s) == s \o <<0>>

RECURSIVE ScanCString(_, _)
ScanCString(buf, i) == IF i > Len(buf) \/ buf[i] = 0 THEN i ELSE ScanCString(buf, i + 1)

\* the bytes up to the first NUL or the end of the buffer; the NUL is consumed
readCString(buf, pos) ==
    LET i == ScanCString(buf, pos + 1)
    IN  [v |-> SubSeq(buf, pos + 1, i - 1), pos |-> IF i > Len(buf) THEN Len(buf) ELSE i]

(***************************************************************************)
(* Values.  A value is a record [t, v]; arrays and objects live in a heap  *)
(* (a sequence of containers) and a value of type "ref" names one of them, *)
(* so that two occurrences of the same container are the same name.        *)
(***************************************************************************)
VUndef == [t |-> "undef", v |-> 0]
VNull == [t |-> "null", v |-> 0]
VBool(b) == [t |-> "bool", v |-> b]
VNum(x) == [t |-> "num", v |-> x]
VStr(s) == [t |-> "str", v |-> s]
VDate(ms) == [t |-> "date", v |-> ms]
VBytes(b) == [t |-> "bytes", v |-> b]
VRef(id) == [t |-> "ref", v |-> id]
\* a function; called, it returns container r of the heap, or undefined when r = 0
VFunc(r) == [t |-> "func", v |-> r]
VSymbol == [t |-> "symbol", v |-> 0]

Container(kind, keys, vals) == [kind |-> kind, keys |-> keys, vals |-> vals]

\* the index of x in the sequence s, 0 when it is absent
IndexOf(s, x) == IF \E i \in 1..Len(s) : s[i] = x
                 THEN CHOOSE i \in 1..Len(s) : s[i] = x /\ \A j \in 1..(i - 1) : s[j] # x
                 ELSE 0

getValueTag_nullForUndefined(h, obj) ==
    IF obj.t = "undef" THEN TAG_NULL
    ELSE IF obj.t = "null" THEN TAG_NULL
    ELSE IF obj.t = "ref" /\ h[obj.v].kind = "arr" THEN TAG_ARRAY
    ELSE IF obj.t = "date" THEN TAG_DATE
    ELSE IF obj.t = "bytes" THEN TAG_UINT8ARRAY
    ELSE IF obj.t = "ref" THEN TAG_OBJECT
    ELSE IF obj.t = "num" THEN getNumberTag(obj.v)
    ELSE IF obj.t = "str" THEN TAG_STRING_REF
    ELSE IF obj.t = "bool" THEN (IF obj.v THEN TAG_BOOLEAN_TRUE ELSE TAG_BOOLEAN_FALSE)
    ELSE 0 - 1

\* the tag of a value; 0 - 1 stands for the "Unsupported type" error
\* variant: a function or a symbol is written as undefined
getValueTag_symbolAsUndefined(h, obj) ==
    IF obj.t = "undef" THEN TAG_UNDEFINED
    ELSE IF obj.t = "null" THEN TAG_NULL
    ELSE IF obj.t = "ref" /\ h[obj.v].kind = "arr" THEN TAG_ARRAY
    ELSE IF obj.t = "date" THEN TAG_DATE
    ELSE IF obj.t = "bytes" THEN TAG_UINT8ARRAY
    ELSE IF obj.t = "ref" THEN TAG_OBJECT
    ELSE IF obj.t = "num" THEN getNumberTag(obj.v)
    ELSE IF obj.t = "str" THEN TAG_STRING_REF
    ELSE IF obj.t = "bool" THEN (IF obj.v THEN TAG_BOOLEAN_TRUE ELSE TAG_BOOLEAN_FALSE)
    ELSE TAG_UNDEFINED

getValueTag(h, obj) ==
    IF obj.t = "undef" THEN TAG_UNDEFINED
    ELSE IF obj.t = "null" THEN TAG_NULL
    ELSE IF obj.t = "ref" /\ h[obj.v].kind = "arr" THEN TAG_ARRAY
    ELSE IF obj.t = "date" THEN TAG_DATE
    ELSE IF obj.t = "bytes" THEN TAG_UINT8ARRAY
    ELSE IF obj.t = "ref" THEN TAG_OBJECT
    ELSE IF obj.t = "num" THEN getNumberTag(obj.v)
    ELSE IF obj.t = "str" THEN TAG_STRING_REF
    ELSE IF obj.t = "bool" THEN (IF obj.v THEN TAG_BOOLEAN_TRUE ELSE TAG_BOOLEAN_FALSE)
    ELSE 0 - 1

(***************************************************************************)
(* Encoder.  Its state is the record                                       *)
(*   ds          the bytes written so far (ds.position is their number)    *)
(*   object_refs container -> position                                     *)
(*   string_keys the property names, in insertion order (index from 0)     *)
(*   string_refs the other strings, in insertion order (index from 1)      *)
(*   hasCycle                                                              *)
(*   stack       the loops in progress: [id, i] is the loop over the slots *)
(*               of container id, about to serialize slot i                *)
(***************************************************************************)
NewEncoder ==
    [ds |-> <<>>, object_refs |-> <<>>, string_keys |-> <<>>, string_refs |-> <<>>,
     hasCycle |-> FALSE, stack |-> <<>>, err |-> "", calls |-> <<>>]

Write(e, bytes) == [e EXCEPT !.ds = @ \o bytes]

\* "toJSON"
ToJSON == <<116, 111, 74, 83, 79, 78>>

\* obj.toJSON !== undefined && typeof obj.toJSON === "function"
HasToJSON(c) ==
    /\ c.kind = "obj"
    /\ IndexOf(c.keys, ToJSON) # 0
    /\ c.vals[IndexOf(c.keys, ToJSON)].t = "func"

\* the container whose properties are serialized for obj: obj.toJSON() when
\* obj has that method (0 when the call returns undefined), obj otherwise
Projection(h, obj) ==
    IF HasToJSON(h[obj]) THEN h[obj].vals[IndexOf(h[obj].keys, ToJSON)].v ELSE obj

\* variant: Object.keys(obj), the function-valued keys included
OwnKeys_unfiltered(c) == [i \in 1..Len(c.vals) |-> i]

\* Object.keys(obj).filter(k => typeof obj[k] !== "function"), as the slots
\* of the container they name; every slot of an array
OwnKeys(c) ==
    SelectSeq([i \in 1..Len(c.vals) |-> i],
              LAMBDA i : c.kind = "arr" \/ c.vals[i].t # "func")

\* variant: toJSON is called but the object's own properties are serialized
ObjectByValue_own(h, e, obj, src) ==
    [Write(e, Count(Len(OwnKeys(h[obj]))))
        EXCEPT !.calls = IF HasToJSON(h[obj]) THEN Append(@, obj) ELSE @,
               !.stack = Append(@, [id |-> obj, src |-> obj, i |-> 1])]

\* the entry of serializeObject by value, after the tag: toJSON, then the count
ObjectByValue(h, e, obj, src) ==
    IF src = 0 THEN [e EXCEPT !.err = "type", !.calls = Append(@, obj)]
    ELSE [Write(e, Count(Len(OwnKeys(h[src]))))
             EXCEPT !.calls = IF HasToJSON(h[obj]) THEN Append(@, obj) ELSE @,
                    !.stack = Append(@, [id |-> obj, src |-> src, i |-> 1])]

\* variant: the empty string is interned like any other string
serializeString_storeEmpty(e, string) ==
    IF IndexOf(e.string_refs, string) = 0
    THEN Write([e EXCEPT !.string_refs = Append(@, string)], Count(Len(e.string_refs) + 1))
    ELSE Write(e, Count(IndexOf(e.string_refs, string)))

serializeString(e, string) ==
    IF string = <<>> THEN Write(e, Count(0))
    ELSE IF IndexOf(e.string_refs, string) = 0
    THEN Write([e EXCEPT !.string_refs = Append(@, string)], Count(Len(e.string_refs) + 1))
    ELSE Write(e, Count(IndexOf(e.string_refs, string)))

serializeDate(e, date) == Write(e, writeFloat64(date))

\* variant: an object written by reference does not set hasCycle
serializeObject_noLatch(h, e, obj) ==
    IF obj \notin DOMAIN e.object_refs
    THEN ObjectByValue(h, [Write(e, <<TAG_OBJECT>>)
                              EXCEPT !.object_refs = (obj :> Len(e.ds)) @@ @],
                       obj, Projection(h, obj))
    ELSE Write(e, <<TAG_OBJECT_REF>> \o Count(e.object_refs[obj]))

serializeObject_lateRegister(h, e, obj) ==
    IF obj \notin DOMAIN e.object_refs
    THEN ObjectByValue(h, [Write(e, <<TAG_OBJECT>>)
                              EXCEPT !.object_refs = (obj :> (Len(e.ds) + 1)) @@ @],
                       obj, Projection(h, obj))
    ELSE [Write(e, <<TAG_OBJECT_REF>> \o Count(e.object_refs[obj])) EXCEPT !.hasCycle = TRUE]

\* by value the object is registered and its tag and property count are written;
\* its properties are serialized by the loop, one property a step
serializeObject(h, e, obj) ==
    IF obj \notin DOMAIN e.object_refs
    THEN ObjectByValue(h, [Write(e, <<TAG_OBJECT>>)
                              EXCEPT !.object_refs = (obj :> Len(e.ds)) @@ @],
                       obj, Projection(h, obj))
    ELSE [Write(e, <<TAG_OBJECT_REF>> \o Count(e.object_refs[obj])) EXCEPT !.hasCycle = TRUE]

\* variant: an array written by reference is registered again, at the
\* position of the by-reference tag
serializeArray_reRegister(h, e, array) ==
    IF array \notin DOMAIN e.object_refs
    THEN [Write(e, <<TAG_ARRAY>> \o Count(Len(h[array].vals)))
            EXCEPT !.object_refs = (array :> Len(e.ds)) @@ @,
                   !.stack = Append(@, [id |-> array, src |-> array, i |-> 1])]
    ELSE [Write(e, <<TAG_OBJECT_REF>> \o Count(e.object_refs[array]))
            EXCEPT !.hasCycle = TRUE, !.object_refs = (array :> Len(e.ds)) @@ @]

\* variant: an array is not entered in the identity map
serializeArray_unregistered(h, e, array) ==
    [Write(e, <<TAG_ARRAY>> \o Count(Len(h[array].vals)))
        EXCEPT !.stack = Append(@, [id |-> array, src |-> array, i |-> 1])]

serializeArray_noLatch(h, e, array) ==
    IF array \notin DOMAIN e.object_refs
    THEN [Write(e, <<TAG_ARRAY>> \o Count(Len(h[array].vals)))
            EXCEPT !.object_refs = (array :> Len(e.ds)) @@ @,
                   !.stack = Append(@, [id |-> array, src |-> array, i |-> 1])]
    ELSE Write(e, <<TAG_OBJECT_REF>> \o Count(e.object_refs[array]))

serializeArray(h, e, array) ==
    IF array \notin DOMAIN e.object_refs
    THEN [Write(e, <<TAG_ARRAY>> \o Count(Len(h[array].vals)))
            EXCEPT !.object_refs = (array :> Len(e.ds)) @@ @,
                   !.stack = Append(@, [id |-> array, src |-> array, i |-> 1])]
    ELSE [Write(e, <<TAG_OBJECT_REF>> \o Count(e.object_refs[array])) EXCEPT !.hasCycle = TRUE]

\* variant: a date or a byte buffer counts as a repeated reference
serializeComponentPart_latch(e, obj, tag) ==
    IF tag = TAG_DATE THEN [serializeDate(e, obj.v) EXCEPT !.hasCycle = TRUE]
    ELSE IF tag = TAG_UINT8ARRAY
    THEN [Write(e, Count(Len(obj.v)) \o obj.v) EXCEPT !.hasCycle = TRUE]
    ELSE IF tag = TAG_STRING_REF THEN serializeString(e, obj.v)
    ELSE IF tag \in {TAG_NUMBER, TAG_INT8, TAG_INT16, TAG_INT32,
                     TAG_UINT8, TAG_UINT16, TAG_UINT32}
    THEN Write(e, serializeNumber(obj.v, tag))
    ELSE e

serializeComponentPart(e, obj, tag) ==
    IF tag \in {TAG_NUMBER, TAG_INT8, TAG_INT16, TAG_INT32, TAG_UINT8, TAG_UINT16, TAG_UINT32}
    THEN Write(e, serializeNumber(obj.v, tag))
    ELSE IF tag = TAG_STRING_REF THEN serializeString(e, obj.v)
    ELSE IF tag = TAG_DATE THEN serializeDate(e, obj.v)
    ELSE IF tag = TAG_UINT8ARRAY THEN Write(e, Count(Len(obj.v)) \o obj.v)
    ELSE e

\* the value obj with the tag getValueTag gave it
serializeTagged(h, e, obj, tag) ==
    IF tag < 0 THEN [e EXCEPT !.err = "unsupported"]
    ELSE IF tag = TAG_OBJECT THEN serializeObject(h, e, obj.v)
    ELSE IF tag = TAG_ARRAY THEN serializeArray(h, e, obj.v)
    ELSE serializeComponentPart(Write(e, <<tag>>), obj, tag)

serializeComponent(h, e, obj) == serializeTagged(h, e, obj, getValueTag(h, obj))

\* one iteration of the loop on top of the stack: the property name (of an
\* object), then the value of the slot
\* index = this.string_keys.get(k), k registered when it is new; serializeCount(index)
serializeKey(e, k) ==
    IF IndexOf(e.string_keys, k) = 0
    THEN Write([e EXCEPT !.string_keys = Append(@, k)], Count(Len(e.string_keys)))
    ELSE Write(e, Count(IndexOf(e.string_keys, k) - 1))

\* slot i of container c, in the loop whose counter has been advanced in e
SerializeSlotOf(h, e, c, i) ==
    serializeComponent(h, IF c.kind = "arr" THEN e ELSE serializeKey(e, c.keys[i]), c.vals[i])

SerializeSlot(h, e) ==
    SerializeSlotOf(h, [e EXCEPT !.stack[Len(e.stack)].i = @ + 1],
                    h[e.stack[Len(e.stack)].src],
                    OwnKeys(h[e.stack[Len(e.stack)].src])[e.stack[Len(e.stack)].i])

RECURSIVE EndLoops(_, _)
\* the loops that have no slot left return
EndLoops(h, e) ==
    IF e.stack = <<>> THEN e
    ELSE IF e.stack[Len(e.stack)].i > Len(OwnKeys(h[e.stack[Len(e.stack)].src]))
    THEN EndLoops(h, [e EXCEPT !.stack = SubSeq(@, 1, Len(@) - 1)])
    ELSE e

RECURSIVE CStrings(_)
CStrings(strings) ==
    IF strings = <<>> THEN <<>>
    ELSE writeCString(encode_utf8(strings[1])) \o CStrings(Tail(strings))

\* the buffer serializeTOS leaves in this.ds: header, tables, then the payload
\* variant: the count of an empty table is left out
serializeTOS_noEmptyTable(e, opts) ==
    LET v == MAJOR_VERSION + (IF ~e.hasCycle THEN OPTION_NOCYCLE ELSE 0)
        head == IF opts.hasCRC THEN <<v + OPTION_CRC32>> \o crc32(e.ds) ELSE <<v>>
    IN  head \o (IF e.string_keys = <<>> THEN <<>>
                 ELSE Count(Len(e.string_keys)) \o CStrings(e.string_keys))
             \o Count(Len(e.string_refs)) \o CStrings(e.string_refs)
             \o e.ds

serializeTOS(e, opts) ==
    LET v == MAJOR_VERSION + (IF ~e.hasCycle THEN OPTION_NOCYCLE ELSE 0)
        head == IF opts.hasCRC THEN <<v + OPTION_CRC32>> \o crc32(e.ds) ELSE <<v>>
    IN  head \o Count(Len(e.string_keys)) \o CStrings(e.string_keys)
             \o Count(Len(e.string_refs)) \o CStrings(e.string_refs)
             \o e.ds

(***************************************************************************)
(* Decoder.  Its state is the record                                       *)
(*   pos          ds.position                                              *)
(*   object_refs  position -> container of heap                            *)
(*   string_keys, string_refs   the tables: size is the count read, items  *)
(*                the strings read before the end of the buffer (the       *)
(*                others are empty: readCString does not throw there)      *)
(*   hasCycle, offset                                                      *)
(*   heap         the containers created so far                            *)
(*   stack        the loops in progress: [id, left, key] fills container   *)
(*                id, has left values to read, the pending one under key   *)
(*   err          the error thrown, "" when none                           *)
(*   done, result the value decode returned                                *)
(***************************************************************************)
EmptyTable == [size |-> 0, items |-> <<>>]

NewDecoder ==
    [pos |-> 0, object_refs |-> <<>>, string_keys |-> EmptyTable, string_refs |-> EmptyTable,
     hasCycle |-> TRUE, offset |-> 0, heap |-> <<>>, stack |-> <<>>,
     err |-> "", done |-> FALSE, result |-> VUndef]

Throw(d, err) == [d EXCEPT !.err = err]

\* "undefined", the property name an absent table entry turns into
KeyUndefined == <<117, 110, 100, 101, 102, 105, 110, 101, 100>>

\* Map.get on a table; <<0 - 1>> stands for undefined
TableGet(table, index) ==
    IF index < 0 \/ index >= table.size THEN <<0 - 1>>
    ELSE IF index < Len(table.items) THEN table.items[index + 1]
    ELSE <<>>

RECURSIVE ReadStrings(_, _, _, _)
\* for (i = 0; i < size; i += 1) { s = decode_utf8(readCString()); table.set(i, s) }
ReadStrings(buf, pos, left, items) ==
    IF left <= 0 \/ pos >= Len(buf) THEN [err |-> "", items |-> items, pos |-> pos]
    ELSE LET r == readCString(buf, pos)
             s == decode_utf8(r.v)
         IN  IF s.err # "" THEN [err |-> s.err, items |-> items, pos |-> r.pos]
             ELSE ReadStrings(buf, r.pos, left - 1, Append(items, s.s))

\* the table of size entries whose strings r were read
TableOf(size, r) ==
    [err |-> r.err, pos |-> r.pos,
     table |-> [size |-> IF size < 0 THEN 0 ELSE size, items |-> r.items]]

\* the table that follows its count c
TableAfterCount(buf, pos, c) ==
    IF c.err # "" THEN [err |-> c.err, table |-> EmptyTable, pos |-> pos]
    ELSE TableOf(WordToInt(c.w), ReadStrings(buf, c.pos, WordToInt(c.w), <<>>))

\* size = unserializeCount(), then the loop that reads size strings
unserializeTable(buf, pos) == TableAfterCount(buf, pos, unserializeCount(buf, pos))

VersionMismatch_wholeByte(version) == version > MAJOR_VERSION

\* (version & 0x0F) > MAJOR_VERSION
VersionMismatch(version) == version % 16 > MAJOR_VERSION

ChecksumMismatch_unchecked(buf, offset, crc) == FALSE

\* raw = readUint8Array() from offset to the end; crc32(raw) !== crc
ChecksumMismatch(buf, offset, crc) == crc32(SubSeq(buf, offset + 1, Len(buf))) # crc

PositionAfterChecksum_notReset(buf, offset) == Len(buf)

\* this.ds.position = offset, after readUint8Array() moved it to the end
PositionAfterChecksum(buf, offset) == offset

\* the end of unserializeTOS: with the CRC option, the checksum of the bytes
\* from the end of the tables to the end, compared with crc
ChecksumOfTOS(d, buf, hasCrc, crc) ==
    IF hasCrc /\ ChecksumMismatch(buf, d.pos, crc) THEN Throw([d EXCEPT !.pos = Len(buf)], "crc")
    ELSE IF hasCrc THEN [d EXCEPT !.pos = PositionAfterChecksum(buf, d.pos)]
    ELSE d

\* the second table, of the string values
StringRefsOfTOS(d, buf, hasCrc, crc, refs) ==
    IF refs.err # "" THEN Throw([d EXCEPT !.pos = refs.pos], refs.err)
    ELSE ChecksumOfTOS([d EXCEPT !.string_refs = refs.table, !.pos = refs.pos],
                       buf, hasCrc, crc)

\* the first table, of the property names
StringKeysOfTOS(d, buf, hasCrc, crc, keys) ==
    IF keys.err # "" THEN Throw([d EXCEPT !.pos = keys.pos], keys.err)
    ELSE StringRefsOfTOS([d EXCEPT !.string_keys = keys.table], buf, hasCrc, crc,
                         unserializeTable(buf, keys.pos))

\* the saved checksum and the NOCYCLE option
OptionsOfTOS(d, buf, version, crc) ==
    IF crc.err # "" THEN Throw(d, crc.err)
    ELSE StringKeysOfTOS([d EXCEPT !.hasCycle = (version \div OPTION_NOCYCLE) % 2 = 0],
                         buf, (version \div OPTION_CRC32) % 2 = 1, crc.v,
                         unserializeTable(buf, crc.pos))

\* the version check on the first byte
VersionOfTOS(d, buf, version) ==
    IF version.err # "" THEN Throw(d, version.err)
    ELSE IF VersionMismatch(version.v) THEN Throw([d EXCEPT !.pos = version.pos], "version")
    ELSE OptionsOfTOS([d EXCEPT !.pos = version.pos], buf, version.v,
                      IF (version.v \div OPTION_CRC32) % 2 = 1
                      THEN readBytes(buf, version.pos, 4)
                      ELSE [err |-> "", v |-> <<>>, pos |-> version.pos])

\* header, tables and checksum; leaves pos at the first byte of the payload
unserializeTOS(buf) == VersionOfTOS(NewDecoder, buf, readUint8(buf, 0))

\* new Date(ms): the time value is an integral number of milliseconds, or NaN
NewDate(ms) ==
    IF ms.k = "raw" THEN NumRaw(<<127, 248, 0, 0, 0, 0, 0, 0>>)
    ELSE NumHL(ms.neg /\ (ms.hi > 0 \/ ms.lo > 0), ms.hi, ms.lo, 0)

\* a value without components: [err, val, pos]
unserializeLeaf(d, buf, tag, pos) ==
    LET n == IF tag \in {TAG_NUMBER, TAG_DATE} THEN 8
             ELSE IF tag \in {TAG_INT32, TAG_UINT32} THEN 4
             ELSE IF tag \in {TAG_INT16, TAG_UINT16} THEN 2
             ELSE IF tag \in {TAG_INT8, TAG_UINT8} THEN 1
             ELSE 0
        b == readBytes(buf, pos, n)
        c == unserializeCount(buf, pos)
        index == WordToInt(c.w)
        bytes == readBytes(buf, c.pos, index)
        Ok(val, p) == [err |-> "", val |-> val, pos |-> p]
        Fail(err) == [err |-> err, val |-> VUndef, pos |-> pos]
        sx == IF n > 0 /\ b.err = "" /\ b.v[1] >= 128 THEN 255 ELSE 0
    IN  IF tag \in {TAG_NUMBER, TAG_DATE, TAG_INT8, TAG_INT16, TAG_INT32,
                    TAG_UINT8, TAG_UINT16, TAG_UINT32} /\ b.err # "" THEN Fail(b.err)
        ELSE IF tag = TAG_NUMBER THEN Ok(VNum(readFloat64(b.v)), b.pos)
        ELSE IF tag = TAG_INT8 THEN Ok(VNum(WordToNumS(<<sx, sx, sx, b.v[1]>>)), b.pos)
        ELSE IF tag = TAG_INT16 THEN Ok(VNum(WordToNumS(<<sx, sx, b.v[1], b.v[2]>>)), b.pos)
        ELSE IF tag = TAG_INT32 THEN Ok(VNum(WordToNumS(b.v)), b.pos)
        ELSE IF tag = TAG_UINT8 THEN Ok(VNum(WordToNumU(<<0, 0, 0, b.v[1]>>)), b.pos)
        ELSE IF tag = TAG_UINT16 THEN Ok(VNum(WordToNumU(<<0, 0, b.v[1], b.v[2]>>)), b.pos)
        ELSE IF tag = TAG_UINT32 THEN Ok(VNum(WordToNumU(b.v)), b.pos)
        ELSE IF tag = TAG_DATE THEN Ok(VDate(NewDate(readFloat64(b.v))), b.pos)
        ELSE IF tag = TAG_STRING_REF
        THEN IF c.err # "" THEN Fail(c.err)
             ELSE IF index = 0 THEN Ok(VStr(<<>>), c.pos)
             ELSE IF index > d.string_refs.size THEN Fail("strref")
             ELSE IF index < 0 THEN Ok(VUndef, c.pos)
             ELSE Ok(VStr(TableGet(d.string_refs, index - 1)), c.pos)
        ELSE IF tag = TAG_UINT8ARRAY
        THEN IF c.err # "" THEN Fail(c.err)
             ELSE IF bytes.err # "" THEN Fail(bytes.err)
             ELSE Ok(VBytes(bytes.v), bytes.pos)
        ELSE IF tag = TAG_BOOLEAN_TRUE THEN Ok(VBool(TRUE), pos)
        ELSE IF tag = TAG_BOOLEAN_FALSE THEN Ok(VBool(FALSE), pos)
        ELSE IF tag = TAG_NULL THEN Ok(VNull, pos)
        ELSE IF tag = TAG_UNDEFINED THEN Ok(VUndef, pos)
        ELSE IF tag = TAG_OBJECT_REF
        THEN IF c.err # "" THEN Fail(c.err)
             ELSE IF \E k \in DOMAIN d.object_refs : k - d.offset = index
             THEN Ok(VRef(d.object_refs[CHOOSE k \in DOMAIN d.object_refs : k - d.offset = index]),
                     c.pos)
             ELSE Fail("ref")
        ELSE Fail("tag")

\* obj[key] = val, arr[i] = val
Assign(c, key, val) ==
    IF c.kind = "arr" THEN [c EXCEPT !.vals = Append(@, val)]
    ELSE IF IndexOf(c.keys, key) = 0
    THEN [c EXCEPT !.keys = Append(@, key), !.vals = Append(@, val)]
    ELSE [c EXCEPT !.vals[IndexOf(c.keys, key)] = val]

RECURSIVE Return(_, _)
\* unserializeComponent returns val to its caller: decode, or the loop on top
\* of the stack, which stores it and returns its container when it has read all
Return(d, val) ==
    IF d.stack = <<>> THEN [d EXCEPT !.done = TRUE, !.result = val]
    ELSE LET top == d.stack[Len(d.stack)]
             d1 == [d EXCEPT !.heap[top.id] = Assign(@, top.key, val),
                             !.stack[Len(d.stack)].left = top.left - 1]
         IN  IF top.left - 1 > 0 THEN d1
             ELSE Return([d1 EXCEPT !.stack = SubSeq(@, 1, Len(@) - 1)], VRef(top.id))

\* variant: the container is registered under the position after its tag
unserializeContainer_afterTag(d, buf, kind, pos) ==
    LET id == Len(d.heap) + 1
        c == unserializeCount(buf, pos)
        size == WordToInt(c.w)
        d1 == [d EXCEPT !.heap = Append(@, Container(kind, <<>>, <<>>)),
                        !.object_refs = IF d.hasCycle THEN (pos :> id) @@ @ ELSE @,
                        !.pos = c.pos]
    IN  IF c.err # "" THEN Throw(d1, c.err)
        ELSE IF size > 0
        THEN [d1 EXCEPT !.stack = Append(@, [id |-> id, left |-> size, key |-> <<>>])]
        ELSE Return(d1, VRef(id))

\* variant: the container is registered whatever the NOCYCLE bit says
unserializeContainer_alwaysRegister(d, buf, kind, pos) ==
    LET id == Len(d.heap) + 1
        c == unserializeCount(buf, pos)
        size == WordToInt(c.w)
        d1 == [d EXCEPT !.heap = Append(@, Container(kind, <<>>, <<>>)),
                        !.object_refs = ((pos - 1) :> id) @@ @,
                        !.pos = c.pos]
    IN  IF c.err # "" THEN Throw(d1, c.err)
        ELSE IF size > 0
        THEN [d1 EXCEPT !.stack = Append(@, [id |-> id, left |-> size, key |-> <<>>])]
        ELSE Return(d1, VRef(id))

unserializeContainer_noRegister(d, buf, kind, pos) ==
    LET id == Len(d.heap) + 1
        c == unserializeCount(buf, pos)
        size == WordToInt(c.w)
        d1 == [d EXCEPT !.heap = Append(@, Container(kind, <<>>, <<>>)), !.pos = c.pos]
    IN  IF c.err # "" THEN Throw(d1, c.err)
        ELSE IF size > 0
        THEN [d1 EXCEPT !.stack = Append(@, [id |-> id, left |-> size, key |-> <<>>])]
        ELSE Return(d1, VRef(id))

\* unserializeObject and unserializeArray up to their loop: the new container
\* is registered under the position of its tag (pos is the position after it)
\* variant: a container is registered when it is returned: one that has a
\* body is not in the map while its body is read
unserializeContainer_registerWhenEmpty(d, buf, kind, pos) ==
    LET id == Len(d.heap) + 1
        c == unserializeCount(buf, pos)
        size == WordToInt(c.w)
        d1 == [d EXCEPT !.heap = Append(@, Container(kind, <<>>, <<>>)), !.pos = c.pos]
    IN  IF c.err # "" THEN Throw(d1, c.err)
        ELSE IF size > 0
        THEN [d1 EXCEPT !.stack = Append(@, [id |-> id, left |-> size, key |-> <<>>])]
        ELSE Return([d1 EXCEPT !.object_refs =
                                  IF d.hasCycle THEN ((pos - 1) :> id) @@ @ ELSE @],
                    VRef(id))

unserializeContainer(d, buf, kind, pos) ==
    LET id == Len(d.heap) + 1
        c == unserializeCount(buf, pos)
        size == WordToInt(c.w)
        d1 == [d EXCEPT !.heap = Append(@, Container(kind, <<>>, <<>>)),
                        !.object_refs = IF d.hasCycle THEN ((pos - 1) :> id) @@ @ ELSE @,
                        !.pos = c.pos]
    IN  IF c.err # "" THEN Throw(d1, c.err)
        ELSE IF size > 0
        THEN [d1 EXCEPT !.stack = Append(@, [id |-> id, left |-> size, key |-> <<>>])]
        ELSE Return(d1, VRef(id))

\* the value a tag without components stands for is returned to the caller
ReturnLeaf(d, leaf) ==
    IF leaf.err # "" THEN Throw(d, leaf.err)
    ELSE Return([d EXCEPT !.pos = leaf.pos], leaf.val)

\* unserializeComponentPart(readUint8())
unserializeComponentPart(d, buf, tag) ==
    IF tag.err # "" THEN Throw(d, tag.err)
    ELSE IF tag.v = TAG_OBJECT THEN unserializeContainer(d, buf, "obj", tag.pos)
    ELSE IF tag.v = TAG_ARRAY THEN unserializeContainer(d, buf, "arr", tag.pos)
    ELSE ReturnLeaf(d, unserializeLeaf(d, buf, tag.v, tag.pos))

\* key = this.string_keys.get(unserializeCount()) in the loop of unserializeObject
unserializeKey(d, buf, c) ==
    IF c.err # "" THEN Throw(d, c.err)
    ELSE IF WordToInt(c.w) >= d.string_keys.size THEN Throw(d, "propref")
    ELSE unserializeComponentPart(
             [d EXCEPT !.stack[Len(d.stack)].key =
                           IF TableGet(d.string_keys, WordToInt(c.w)) = <<0 - 1>>
                           THEN KeyUndefined
                           ELSE TableGet(d.string_keys, WordToInt(c.w)),
                       !.pos = c.pos],
             buf, readUint8(buf, c.pos))

\* one call of unserializeComponent, preceded by the read of the property
\* name when the caller is the loop of an object
unserializeComponent(d, buf) ==
    IF d.stack # <<>> /\ d.heap[d.stack[Len(d.stack)].id].kind = "obj"
    THEN unserializeKey(d, buf, unserializeCount(buf, d.pos))
    ELSE unserializeComponentPart(d, buf, readUint8(buf, d.pos))

(***************************************************************************)
(* The inputs of the model                                                 *)
(***************************************************************************)
\* the property names the caller uses when it builds a graph: "a" and "b"
Names == {<<97>>, <<98>>}

\* the values the slots of a graph under construction take, besides containers
GraphLeaves == <<VStr(<<97>>)>>

RECURSIVE SetToSeq(_)
\* the elements of a set in some order
SetToSeq(S) == IF S = {} THEN <<>>
               ELSE LET x == CHOOSE x \in S : TRUE IN <<x>> \o SetToSeq(S \ {x})

NumberSamples ==
    {NumOf(n) : n \in {0, 1, 127, 128, 255, 256, 32767, 32768, 65535, 65536, 2147483647,
                       0 - 1, 0 - 128, 0 - 129, 0 - 32768, 0 - 32769, 0 - 2147483647}}
    \cup {NumHL(FALSE, 32768, 0, 0), NumHL(TRUE, 32768, 0, 0), NumHL(TRUE, 32768, 1, 0),
          NumHL(FALSE, 65535, 65535, 0), NumHL(FALSE, 65536, 0, 0), NumHL(TRUE, 65536, 0, 0),
          NumHL(FALSE, 0, 0, 1), NumHL(TRUE, 0, 1, 1), NumHL(FALSE, 0, 127, 1),
          NumRaw(<<127, 240, 0, 0, 0, 0, 0, 0>>), NumRaw(<<63, 208, 0, 0, 0, 0, 0, 0>>)}

\* "", "a", "b", "ab", "e-acute", "a" then the euro sign
StringSamples == {<<>>, <<97>>, <<98>>, <<97, 98>>, <<233>>, <<97, 8364>>}

\* strings that contain U+0000
NulStringSamples == {<<0>>, <<97, 0, 98>>, <<97, 0>>}

DateSamples == {NumOf(0), NumOf(1), NumOf(0 - 86400000), NumHL(FALSE, 65536, 5, 0),
                NumRaw(<<127, 248, 0, 0, 0, 0, 0, 0>>)}

BytesSamples == {<<>>, <<0>>, <<1, 255>>, <<7, 48, 0>>}

\* the values without components, as a sequence (values of different types
\* are not put in one set)
Leaves ==
    LET N == SetToSeq(NumberSamples)
        S == SetToSeq(StringSamples)
        D == SetToSeq(DateSamples)
        B == SetToSeq(BytesSamples)
    IN  <<VUndef, VNull, VBool(TRUE), VBool(FALSE)>>
        \o [i \in 1..Len(N) |-> VNum(N[i])]
        \o [i \in 1..Len(S) |-> VStr(S[i])]
        \o [i \in 1..Len(D) |-> VDate(D[i])]
        \o [i \in 1..Len(B) |-> VBytes(B[i])]

NulLeaves == LET S == SetToSeq(NulStringSamples) IN [i \in 1..Len(S) |-> VStr(S[i])]

\* the first byte a tampered buffer may carry
VersionBytes == {v + o : v \in {0, 1, 2, 15}, o \in {0, 16, 64, 128, 192}}

CountSamples ==
    {NumHL(FALSE, hi, lo, 0) : hi \in {0, 1, 31, 32, 4095, 4096, 32767, 32768, 65535},
                               lo \in {0, 1, 127, 128, 16383, 16384, 65535}}
    \cup {NumOf(0 - 1), NumHL(FALSE, 0, 1, 1), NumHL(FALSE, 65536, 0, 0)}

(***************************************************************************)
(* The state machine                                                       *)
(***************************************************************************)
VARIABLES
    heap,       \* the containers of the caller
    root,       \* the value handed to encode
    options,    \* the options handed to encode
    pc,         \* where the caller, the Encoder and the Decoder stand
    encoder,    \* the Encoder object
    encoded,    \* the buffer encode returned
    binary,     \* the buffer handed to decode
    decoder,    \* the Decoder object
    count,      \* the value handed to serializeCount
    countBytes, \* the bytes serializeCount wrote
    countRead   \* what unserializeCount returned for them

vars == <<heap, root, options, pc, encoder, encoded, binary, decoder,
          count, countBytes, countRead>>

NoCount == [err |-> "", w |-> <<0, 0, 0, 0>>, pos |-> 0]

Idle ==
    /\ options = [hasCRC |-> FALSE]
    /\ encoder = NewEncoder
    /\ encoded = <<>>
    /\ binary = <<>>
    /\ decoder = NewDecoder
    /\ countBytes = <<>>
    /\ countRead = NoCount

\* an empty array or object, which the caller goes on to fill
InitGraph ==
    /\ \E kind \in {"arr", "obj"} : heap = <<Container(kind, <<>>, <<>>)>>
    /\ root = VRef(1)
    /\ pc = "build"
    /\ count = NumOf(0)
    /\ Idle

\* a value without components: alone, in an array, or as the property of an object
InitLeafOf(leaves) ==
    /\ \E i \in 1..Len(leaves) :
          \/ heap = <<>> /\ root = leaves[i]
          \/ heap = <<Container("arr", <<>>, <<leaves[i]>>)>> /\ root = VRef(1)
          \/ heap = <<Container("obj", <<<<97>>>>, <<leaves[i]>>)>> /\ root = VRef(1)
    /\ pc = "ready"
    /\ count = NumOf(0)
    /\ Idle

InitCount ==
    /\ heap = <<>>
    /\ root = VUndef
    /\ pc = "count"
    /\ count \in CountSamples
    /\ Idle

\* o1 = {name: "o1", children: []}, o2 = {name: "o2", parent: o1},
\* o1.children.push(o2): the cycle of the README
CycleExample ==
    << Container("obj", <<<<110, 97, 109, 101>>, <<99, 104, 105, 108, 100, 114, 101, 110>>>>,
                 <<VStr(<<111, 49>>), VRef(2)>>),
       Container("arr", <<>>, <<VRef(3)>>),
       Container("obj", <<<<110, 97, 109, 101>>, <<112, 97, 114, 101, 110, 116>>>>,
                 <<VStr(<<111, 50>>), VRef(1)>>) >>

\* b = [1, 2, 3], o = {x: b, y: b}: an array referenced twice, no cycle
SharedExample ==
    << Container("obj", <<<<120>>, <<121>>>>, <<VRef(2), VRef(2)>>),
       Container("arr", <<>>, <<VNum(NumOf(1)), VNum(NumOf(2)), VNum(NumOf(3))>>) >>

InitExample ==
    /\ heap \in {CycleExample, SharedExample}
    /\ root = VRef(1)
    /\ pc = "ready"
    /\ count = NumOf(0)
    /\ Idle

Init == InitGraph \/ InitLeafOf(Leaves) \/ InitExample \/ InitCount

InitNul == Init \/ InitLeafOf(NulLeaves)

InitTamper == InitLeafOf(Leaves) \/ InitExample

Slots(h) == LET RECURSIVE Sum(_)
                Sum(i) == IF i = 0 THEN 0 ELSE Len(h[i].vals) + Sum(i - 1)
            IN  Sum(Len(h))

\* the caller sets a new property of an object or pushes onto an array: a
\* leaf, a container it already holds, or a new empty container
AddSlot ==
    /\ pc = "build"
    /\ Slots(heap) < MaxSlots
    /\ \E c \in 1..Len(heap) :
          /\ Len(heap[c].vals) < MaxLen
          /\ \E key \in IF heap[c].kind = "arr" THEN {<<>>}
                        ELSE {k \in Names : IndexOf(heap[c].keys, k) = 0} :
                LET Put(h, val) ==
                        [h EXCEPT ![c].vals = Append(@, val),
                                  ![c].keys = IF heap[c].kind = "arr" THEN @ ELSE Append(@, key)]
                IN  \/ \E i \in 1..Len(GraphLeaves) : heap' = Put(heap, GraphLeaves[i])
                    \/ \E i \in 1..Len(heap) : heap' = Put(heap, VRef(i))
                    \/ /\ Len(heap) < NumContainers
                       /\ \E kind \in {"arr", "obj"} :
                             heap' = Put(Append(heap, Container(kind, <<>>, <<>>)),
                                         VRef(Len(heap) + 1))
    /\ UNCHANGED <<root, options, pc, encoder, encoded, binary, decoder,
                   count, countBytes, countRead>>

\* encode(obj, options) up to the return of the first serializeComponent
Encode ==
    /\ pc \in {"build", "ready"}
    /\ \E hasCRC \in BOOLEAN : options' = [hasCRC |-> hasCRC]
    /\ encoder' = EndLoops(heap, serializeComponent(heap, NewEncoder, root))
    /\ pc' = IF encoder'.err # "" THEN "encodeFailed"
             ELSE IF encoder'.stack = <<>> THEN "tos" ELSE "walk"
    /\ UNCHANGED <<heap, root, encoded, binary, decoder, count, countBytes, countRead>>

\* one iteration of the innermost loop of serializeObject or serializeArray
SerializeNext ==
    /\ pc = "walk"
    /\ encoder' = EndLoops(heap, SerializeSlot(heap, encoder))
    /\ pc' = IF encoder'.err # "" THEN "encodeFailed"
             ELSE IF encoder'.stack = <<>> THEN "tos" ELSE "walk"
    /\ UNCHANGED <<heap, root, options, encoded, binary, decoder, count, countBytes, countRead>>

\* serializeTOS and the return of encode
SerializeTOS ==
    /\ pc = "tos"
    /\ encoded' = serializeTOS(encoder, options)
    /\ pc' = "encoded"
    /\ UNCHANGED <<heap, root, options, encoder, binary, decoder, count, countBytes, countRead>>

\* the caller hands the buffer to decode as it is
Transmit ==
    /\ pc = "encoded"
    /\ binary' = encoded
    /\ pc' = "received"
    /\ UNCHANGED <<heap, root, options, encoder, encoded, decoder, count, countBytes, countRead>>

PayloadStart == Len(encoded) - Len(encoder.ds)

FlipBit(byte, bit) == IF BitOf(byte, bit) = 1 THEN byte - 2 ^ bit ELSE byte + 2 ^ bit

\* one bit of the payload of a checksummed buffer changes before decode
FlipPayloadBit ==
    /\ pc = "encoded"
    /\ options.hasCRC
    /\ \E i \in (PayloadStart + 1)..Len(encoded), bit \in 0..7 :
          binary' = [encoded EXCEPT ![i] = FlipBit(@, bit)]
    /\ pc' = "received"
    /\ UNCHANGED <<heap, root, options, encoder, encoded, decoder, count, countBytes, countRead>>

\* the first byte of the buffer is replaced before decode
SetVersionByte ==
    /\ pc = "encoded"
    /\ \E b \in VersionBytes \ {encoded[1]} : binary' = [encoded EXCEPT ![1] = b]
    /\ pc' = "received"
    /\ UNCHANGED <<heap, root, options, encoder, encoded, decoder, count, countBytes, countRead>>

\* decode(binary) up to the call of unserializeComponent
UnserializeTOS ==
    /\ pc = "received"
    /\ \E d \in {unserializeTOS(binary)} :
          /\ decoder' = [d EXCEPT !.offset = IF d.err = "" THEN d.pos ELSE 0]
          /\ pc' = IF d.err = "" THEN "read" ELSE "failed"
    /\ UNCHANGED <<heap, root, options, encoder, encoded, binary, count, countBytes, countRead>>

\* one call of unserializeComponent, up to its return or to the loop it enters
UnserializeNext ==
    /\ pc = "read"
    /\ decoder' = unserializeComponent(decoder, binary)
    /\ pc' = IF decoder'.err # "" THEN "failed"
             ELSE IF decoder'.done THEN "done" ELSE "read"
    /\ UNCHANGED <<heap, root, options, encoder, encoded, binary, count, countBytes, countRead>>

\* serializeCount(count) on an empty stream
SerializeCount ==
    /\ pc = "count"
    /\ countBytes' = serializeCount(count).bytes
    /\ pc' = IF serializeCount(count).err = "" THEN "countWritten" ELSE "countFailed"
    /\ UNCHANGED <<heap, root, options, encoder, encoded, binary, decoder, count, countRead>>

\* unserializeCount() on the bytes serializeCount wrote
UnserializeCount ==
    /\ pc = "countWritten"
    /\ countRead' = unserializeCount(countBytes, 0)
    /\ pc' = "countRead"
    /\ UNCHANGED <<heap, root, options, encoder, encoded, binary, decoder, count, countBytes>>

Next ==
    \/ AddSlot
    \/ Encode
    \/ SerializeNext
    \/ SerializeTOS
    \/ Transmit
    \/ UnserializeTOS
    \/ UnserializeNext
    \/ SerializeCount
    \/ UnserializeCount

\* the buffer may be altered between encode and decode
NextTamper ==
    \/ Encode
    \/ SerializeNext
    \/ SerializeTOS
    \/ Transmit
    \/ FlipPayloadBit
    \/ SetVersionByte
    \/ UnserializeTOS
    \/ UnserializeNext

\* encode and decode of the values and graphs of the model, and the counts
Spec == Init /\ [][Next]_vars

\* the same, with the strings that contain U+0000 among the values
SpecNul == InitNul /\ [][Next]_vars

\* encode, an altered buffer, decode
SpecTamper == InitTamper /\ [][NextTamper]_vars

(***************************************************************************)
(* Comparing a graph with its decoded copy                                 *)
(***************************************************************************)
IsRef(v) == v.t = "ref"

ValEq(a, b) == a.t = b.t /\ a.v = b.v

\* the pairs of containers one more slot away from the pairs of R, following
\* the same slot on both sides
StepPairs(h1, h2, R) ==
    UNION { { <<h1[x[1]].vals[i].v, h2[x[2]].vals[i].v>> :
                i \in { j \in 1..Len(h1[x[1]].vals) :
                          /\ j <= Len(h2[x[2]].vals)
                          /\ IsRef(h1[x[1]].vals[j])
                          /\ IsRef(h2[x[2]].vals[j]) } } : x \in R }

RECURSIVE PairClosure(_, _, _)
PairClosure(h1, h2, R) ==
    IF StepPairs(h1, h2, R) \subseteq R THEN R
    ELSE PairClosure(h1, h2, R \cup StepPairs(h1, h2, R))

\* the pairs <<a, b>> such that some path leads from r1 to the container a of
\* h1 and from r2 to the container b of h2
Corresponding(h1, r1, h2, r2) ==
    IF IsRef(r1) /\ IsRef(r2) THEN PairClosure(h1, h2, {<<r1.v, r2.v>>}) ELSE {}

SlotEq(a, b) == IF IsRef(a) \/ IsRef(b) THEN IsRef(a) /\ IsRef(b) ELSE ValEq(a, b)

SameContainer(c1, c2) ==
    /\ c1.kind = c2.kind
    /\ c1.keys = c2.keys
    /\ Len(c1.vals) = Len(c2.vals)
    /\ \A i \in 1..Len(c1.vals) : SlotEq(c1.vals[i], c2.vals[i])

\* every path leads to equal values, to containers of the same kind, length
\* and keys in the same order
StructEq(h1, r1, h2, r2) ==
    /\ SlotEq(r1, r2)
    /\ \A x \in Corresponding(h1, r1, h2, r2) : SameContainer(h1[x[1]], h2[x[2]])

\* two paths to one container of h1 are two paths to one container of h2
IdentityKept(h1, r1, h2, r2) ==
    \A x, y \in Corresponding(h1, r1, h2, r2) : x[1] = y[1] => x[2] = y[2]

\* the number of places of the graph that hold container c
Occurrences(h, r, c) ==
    Cardinality(UNION { { <<p, i>> : i \in { j \in 1..Len(h[p].vals) :
                                                /\ IsRef(h[p].vals[j])
                                                /\ h[p].vals[j].v = c } }
                        : p \in 1..Len(h) })
    + (IF IsRef(r) /\ r.v = c THEN 1 ELSE 0)

NoRepeat(h, r) == \A c \in 1..Len(h) : Occurrences(h, r, c) <= 1

Succ(h, S) == UNION { { h[c].vals[i].v : i \in { j \in 1..Len(h[c].vals) : IsRef(h[c].vals[j]) } }
                      : c \in S }

RECURSIVE Descendants(_, _)
Descendants(h, S) == IF Succ(h, S) \subseteq S THEN S ELSE Descendants(h, S \cup Succ(h, S))

\* the containers that are reachable from themselves
OnCycle(h) == { c \in 1..Len(h) : c \in Descendants(h, Succ(h, {c})) }

Intact == binary = encoded

Finished == pc \in {"done", "failed"}

\* bit 6 of byte 0 of the buffer encode returned
NoCycleBit == (encoded[1] \div OPTION_NOCYCLE) % 2 = 1

(***************************************************************************)
(* C1: for every value in which no array or object appears more than once, *)
(* decode(encode(v)) is structurally equal to v (same values, same order   *)
(* of the array elements and of the object keys).                          *)
(***************************************************************************)
C1_RoundTrip ==
    (Finished /\ Intact /\ NoRepeat(heap, root))
        => /\ pc = "done"
           /\ StructEq(heap, root, decoder.heap, decoder.result)

(***************************************************************************)
(* C2: when some array or object is reachable along more than one path,    *)
(* decode(encode(v)) succeeds and two paths that lead to the same          *)
(* container in v lead to one container in the decoded graph.              *)
(***************************************************************************)
C2_IdentityPreserved ==
    (Finished /\ Intact /\ ~NoRepeat(heap, root))
        => /\ pc = "done"
           /\ StructEq(heap, root, decoder.heap, decoder.result)
           /\ IdentityKept(heap, root, decoder.heap, decoder.result)

C2_Witness ==
    /\ pc = "done"
    /\ Intact
    /\ \E c \in 1..Len(heap) : Occurrences(heap, root, c) >= 2
    /\ \E x \in Corresponding(heap, root, decoder.heap, decoder.result) :
          Occurrences(heap, root, x[1]) >= 2

(***************************************************************************)
(* C3: when v contains a cycle, the decoded graph contains the same cycle  *)
(* (the path that leads from a container back to itself in v leads from    *)
(* its copy back to its copy), and bit 6 (NOCYCLE) of byte 0 is clear.     *)
(***************************************************************************)
C3_CycleReconstructed ==
    (Finished /\ Intact /\ OnCycle(heap) # {})
        => /\ pc = "done"
           /\ ~NoCycleBit
           /\ \A x \in Corresponding(heap, root, decoder.heap, decoder.result) :
                 \A y \in PairClosure(heap, decoder.heap, StepPairs(heap, decoder.heap, {x})) :
                    y[1] = x[1] => y[2] = x[2]
           /\ \A c \in OnCycle(heap) :
                 \E x \in Corresponding(heap, root, decoder.heap, decoder.result) :
                    x[1] = c /\ x[2] \in OnCycle(decoder.heap)

C3_Witness ==
    /\ pc = "done"
    /\ Intact
    /\ heap = CycleExample
    /\ decoder.heap[decoder.heap[decoder.heap[decoder.result.v].vals[2].v].vals[1].v].vals[2]
          = decoder.result

PayloadBitFlipped ==
    /\ encoded # <<>>
    /\ Len(binary) = Len(encoded)
    /\ \E i \in (PayloadStart + 1)..Len(encoded), bit \in 0..7 :
          binary = [encoded EXCEPT ![i] = FlipBit(@, bit)]

C5_ChecksumMismatch ==
    (options.hasCRC /\ PayloadBitFlipped /\ pc # "received")
        => /\ pc = "failed"
           /\ decoder.err = "crc"
           /\ ~decoder.done

C5_Witness ==
    /\ options.hasCRC
    /\ PayloadBitFlipped
    /\ pc = "failed"
    /\ decoder.err = "crc"
    /\ Len(encoder.ds) > 1

RECURSIVE RunDecoder(_, _)
RunDecoder(d, buf) ==
    IF d.err # "" \/ d.done THEN d ELSE RunDecoder(unserializeComponent(d, buf), buf)

\* the Decoder after decode(buf) returned or threw
decode(buf) ==
    LET d == unserializeTOS(buf)
    IN  IF d.err # "" THEN d ELSE RunDecoder([d EXCEPT !.offset = d.pos], buf)

(***************************************************************************)
(* C6: decode(encode(v, {hasCRC: true})) succeeds and returns what         *)
(* decode(encode(v)) returns; the four bytes after byte 0 are the CRC32 of *)
(* exactly the payload, the decoder recomputes it over the bytes from the  *)
(* end of the tables to the end of the input and resumes at the first      *)
(* payload byte.                                                           *)
(***************************************************************************)
C6_CrcRoundTrip ==
    (options.hasCRC /\ Intact /\ pc \in {"read", "done", "failed"})
        => /\ pc # "failed"
           /\ SubSeq(encoded, 2, 5) = crc32(encoder.ds)
           /\ decoder.offset = PayloadStart
           /\ SubSeq(binary, decoder.offset + 1, Len(binary)) = encoder.ds
           /\ pc = "done" =>
                 LET plain == decode(serializeTOS(encoder, [hasCRC |-> FALSE]))
                 IN  /\ plain.done
                     /\ ValEq(plain.result, decoder.result)
                     /\ plain.heap = decoder.heap

C6_Witness ==
    /\ options.hasCRC
    /\ Intact
    /\ pc = "done"
    /\ encoded[1] >= OPTION_CRC32
    /\ heap = CycleExample
    /\ decoder.heap = heap

(***************************************************************************)
(* C7 as stated: for every count c in 0 .. 2^32 - 1, unserializeCount on   *)
(* the bytes serializeCount(c) wrote returns exactly c and consumes        *)
(* exactly those bytes, which are 1 to 5 bytes.                            *)
(***************************************************************************)
C7_CountRoundTrip ==
    pc = "countRead"
        => /\ countRead.err = ""
           /\ WordToNumS(countRead.w) = count
           /\ countRead.pos = Len(countBytes)
           /\ Len(countBytes) \in 1..5

\* a value without components, alone or as the only slot of the only container
IsLeafInput ==
    \/ heap = <<>> /\ ~IsRef(root)
    \/ Len(heap) = 1 /\ Len(heap[1].vals) = 1 /\ ~IsRef(heap[1].vals[1])

InputLeaf == IF heap = <<>> THEN root ELSE heap[1].vals[1]

OutputLeaf == IF heap = <<>> THEN decoder.result ELSE decoder.heap[1].vals[1]

\* the tag the Encoder wrote for that value: the first byte of the payload,
\* or the byte after the tag and count of the array, or after the tag, count
\* and name index of the object
WrittenTag == encoder.ds[IF heap = <<>> THEN 1 ELSE IF heap[1].kind = "arr" THEN 3 ELSE 4]

IsInteger(x) == x.k = "dy" /\ x.frac = 0

Between(lo, x, hi) == IsInteger(x) /\ NumLe(lo, x) /\ NumLe(x, hi)

(***************************************************************************)
(* C8 as stated: the encoder writes INT8 for an integer in [-128, 127],    *)
(* INT16 for another integer in [-32768, 32767], INT32 for another integer *)
(* of the signed 32-bit range, NUMBER otherwise, and never writes UINT8,   *)
(* UINT16 or UINT32.                                                       *)
(***************************************************************************)
C8_SignedLadder ==
    (pc = "tos" /\ IsLeafInput /\ InputLeaf.t = "num")
        => /\ WrittenTag \notin {TAG_UINT8, TAG_UINT16, TAG_UINT32}
           /\ WrittenTag =
                 IF Between(NumOf(0 - 128), InputLeaf.v, NumOf(127)) THEN TAG_INT8
                 ELSE IF Between(NumOf(0 - 32768), InputLeaf.v, NumOf(32767)) THEN TAG_INT16
                 ELSE IF Between(NumHL(TRUE, 32768, 0, 0), InputLeaf.v, NumOf(2147483647))
                 THEN TAG_INT32
                 ELSE TAG_NUMBER

(***************************************************************************)
(* C8 amended: the Encoder writes UINT8 (0x12) for an integer in [0, 255], *)
(* UINT16 (0x13) for an integer in [256, 65535], UINT32 (0x14) for an      *)
(* integer in [65536, 2^32 - 1], INT8 (0x02) for an integer in [-128, -1], *)
(* INT16 (0x03) for an integer in [-32768, -129], INT32 (0x04) for an      *)
(* integer in [-2^31, -32769], and NUMBER (0x09) for every other number.   *)
(***************************************************************************)
C8_UnsignedThenSignedLadder ==
    (pc = "tos" /\ IsLeafInput /\ InputLeaf.t = "num")
        => WrittenTag =
              IF Between(NumOf(0), InputLeaf.v, NumOf(255)) THEN TAG_UINT8
              ELSE IF Between(NumOf(256), InputLeaf.v, NumOf(65535)) THEN TAG_UINT16
              ELSE IF Between(NumOf(65536), InputLeaf.v, NumHL(FALSE, 65535, 65535, 0))
              THEN TAG_UINT32
              ELSE IF Between(NumOf(0 - 128), InputLeaf.v, NumOf(0 - 1)) THEN TAG_INT8
              ELSE IF Between(NumOf(0 - 32768), InputLeaf.v, NumOf(0 - 129)) THEN TAG_INT16
              ELSE IF Between(NumHL(TRUE, 32768, 0, 0), InputLeaf.v, NumOf(0 - 32769))
              THEN TAG_INT32
              ELSE TAG_NUMBER

C8_Witness ==
    /\ pc = "tos"
    /\ IsLeafInput
    /\ InputLeaf.t = "num"
    /\ InputLeaf.v = NumOf(127)
    /\ WrittenTag = TAG_UINT8

(***************************************************************************)
(* C9: round trip keeps the variant: undefined stays undefined and null    *)
(* null, booleans keep their value, an integer is the same integer         *)
(* whatever its tag, a date is a date with the same milliseconds, a byte   *)
(* buffer a byte buffer with the same bytes, and a property whose value is *)
(* undefined is still a key of the decoded object.                         *)
(***************************************************************************)
C9_VariantKept ==
    (Finished /\ Intact /\ IsLeafInput
       /\ (InputLeaf.t \in {"undef", "null", "bool", "date", "bytes"}
             \/ (InputLeaf.t = "num" /\ IsInteger(InputLeaf.v))))
        => /\ pc = "done"
           /\ heap = <<>> => ~IsRef(decoder.result)
           /\ heap # <<>> => /\ IsRef(decoder.result)
                             /\ decoder.heap[decoder.result.v].kind = heap[1].kind
                             /\ decoder.heap[decoder.result.v].keys = heap[1].keys
                             /\ Len(decoder.heap[decoder.result.v].vals) = 1
           /\ ValEq(OutputLeaf, InputLeaf)

C9_Witness ==
    /\ pc = "done"
    /\ Intact
    /\ heap = <<Container("obj", <<<<97>>>>, <<VUndef>>)>>
    /\ decoder.heap[decoder.result.v].keys = <<<<97>>>>
    /\ decoder.heap[decoder.result.v].vals[1].t = "undef"

(***************************************************************************)
(* C10: decode fails with the version error exactly when the low 4 bits of *)
(* byte 0 are greater than 1, whatever the option bits; the check is made  *)
(* after byte 0 alone was read: no CRC, table or payload byte is read.     *)
(***************************************************************************)
C10_VersionMismatch ==
    pc \in {"read", "done", "failed"}
        => /\ decoder.err = "version" <=> binary[1] % 16 > 1
           /\ decoder.err = "version"
                 => /\ pc = "failed"
                    /\ decoder.pos = 1
                    /\ decoder.string_keys = EmptyTable
                    /\ decoder.string_refs = EmptyTable
                    /\ decoder.heap = <<>>
                    /\ ~decoder.done

C10_Witness ==
    /\ pc = "failed"
    /\ decoder.err = "version"
    /\ binary[1] >= OPTION_CRC32
    /\ binary[1] % 16 = 2
    /\ decoder.pos = 1

(***************************************************************************)
(* decode called on arguments that encode did not produce                  *)
(***************************************************************************)
\* an ArrayBuffer holding the bytes b (VBytes(b) is a Uint8Array over one)
VBuffer(b) == [t |-> "buffer", v |-> b]

\* binary === undefined || binary === null ||
\* !(binary instanceof ArrayBuffer || binary.buffer instanceof ArrayBuffer)
InvalidData(arg) == ~(arg.t = "buffer" \/ arg.t = "bytes")

\* the counts a crafted stream carries as an index or a position
IndexSamples ==
    {NumOf(0), NumOf(1), NumOf(2), NumOf(4), NumHL(FALSE, 32768, 0, 0),
     NumHL(FALSE, 65535, 65535, 0)}

\* what the payload of a crafted stream is made of:
\*   "str"   a string value with index i
\*   "prop"  an object with one property, whose name has index i, of value true
\*   "ref"   a reference to position i
\*   "fwd"   [reference to position i, []]
\*   "back"  [[], reference to position i]
\*   "long"  a string value whose index is written on six bytes: the low
\*           seven bits of i, four empty continuation bytes and a last byte 0
\*   "arr"   an array of length i, followed by one element, true
\*   "obj"   an object of i properties, followed by one property, 0: true
\*   "buf"   a byte buffer of length i, followed by one byte
Crafts ==
    [k : {"str", "prop", "ref", "fwd", "back", "long", "arr", "obj", "buf"},
     i : IndexSamples]

CraftedPayload(c) ==
    IF c.k = "str" THEN <<TAG_STRING_REF>> \o serializeCount(c.i).bytes
    ELSE IF c.k = "prop"
    THEN <<TAG_OBJECT>> \o Count(1) \o serializeCount(c.i).bytes \o <<TAG_BOOLEAN_TRUE>>
    ELSE IF c.k = "ref" THEN <<TAG_OBJECT_REF>> \o serializeCount(c.i).bytes
    ELSE IF c.k = "long"
    THEN <<TAG_STRING_REF, 128 + (c.i.lo % 128), 128, 128, 128, 128, 0>>
    ELSE IF c.k = "arr"
    THEN <<TAG_ARRAY>> \o serializeCount(c.i).bytes \o <<TAG_BOOLEAN_TRUE>>
    ELSE IF c.k = "obj"
    THEN <<TAG_OBJECT>> \o serializeCount(c.i).bytes \o Count(0) \o <<TAG_BOOLEAN_TRUE>>
    ELSE IF c.k = "buf" THEN <<TAG_UINT8ARRAY>> \o serializeCount(c.i).bytes \o <<7>>
    ELSE IF c.k = "fwd"
    THEN <<TAG_ARRAY>> \o Count(2) \o <<TAG_OBJECT_REF>> \o serializeCount(c.i).bytes
                       \o <<TAG_ARRAY>> \o Count(0)
    ELSE <<TAG_ARRAY>> \o Count(2) \o <<TAG_ARRAY>> \o Count(0)
                       \o <<TAG_OBJECT_REF>> \o serializeCount(c.i).bytes

\* a stream with first byte hdr, n names ("a"), m strings ("b") and a payload
CraftedStream(hdr, n, m, payload) ==
    <<hdr>> \o Count(n) \o CStrings(SubSeq(<<<<97>>>>, 1, n))
            \o Count(m) \o CStrings(SubSeq(<<<<98>>>>, 1, m))
            \o payload

Headers == {MAJOR_VERSION, MAJOR_VERSION + OPTION_NOCYCLE}

Streams ==
    {CraftedStream(hdr, n, m, CraftedPayload(c)) :
        hdr \in Headers, n \in 0..1, m \in 0..1, c \in Crafts}

\* values that are no byte buffer
NonBuffers == <<VUndef, VNull, VStr(<<97>>), VNum(NumOf(0)), VBool(TRUE)>>

\* root is the argument of decode
InitDecode ==
    /\ heap = <<>>
    /\ \/ \E i \in 1..Len(NonBuffers) : root = NonBuffers[i]
       \/ \E b \in Streams \cup {<<>>} : root = VBytes(b)
       \/ \E b \in {<<>>, <<65, 0, 0, 1>>} : root = VBuffer(b)
    /\ pc = "call"
    /\ count = NumOf(0)
    /\ Idle

\* decode(binary) of the module, up to new Decoder(binary)
Decode ==
    /\ pc = "call"
    /\ IF InvalidData(root)
       THEN decoder' = Throw(NewDecoder, "invalid") /\ binary' = binary /\ pc' = "failed"
       ELSE decoder' = decoder /\ binary' = root.v /\ pc' = "received"
    /\ UNCHANGED <<heap, root, options, encoder, encoded, count, countBytes, countRead>>

NextDecode ==
    \/ Decode
    \/ UnserializeTOS
    \/ UnserializeNext

SpecDecode == InitDecode /\ [][NextDecode]_vars

(***************************************************************************)
(* C11 as stated: decode fails with the "Invalid data" error when its      *)
(* argument is undefined, null, not a byte buffer, or a byte buffer of     *)
(* length 0.                                                               *)
(***************************************************************************)
C11_InvalidData ==
    (pc \in {"read", "done", "failed"}
       /\ encoded = <<>>
       /\ (InvalidData(root) \/ root.v = <<>>))
        => /\ pc = "failed"
           /\ decoder.err = "invalid"

\* the index or position of craft c is not known at its point of use, in a
\* stream with n names and m strings: a string index above m, a name index
\* of n or more, a position with no container read before it (the other
\* crafts hold no index and no position)
Unknown(c, n, m, hdr) ==
    IF c.k = "str" THEN NumLt(NumOf(m), c.i)
    ELSE IF c.k = "prop" THEN NumLe(NumOf(n), c.i)
    ELSE IF c.k = "ref" THEN TRUE
    ELSE IF c.k = "fwd" THEN ~(hdr = MAJOR_VERSION /\ c.i = NumOf(0))
    ELSE IF c.k = "back" THEN ~(hdr = MAJOR_VERSION /\ c.i \in {NumOf(0), NumOf(2)})
    ELSE FALSE

OutOfBoundsReference == {"strref", "propref", "ref"}

(***************************************************************************)
(* C12 as stated: decode fails with the out-of-bounds-reference error and  *)
(* returns no value whenever the payload holds a property-name index >= n, *)
(* a string index > m, or a position under which no container has been    *)
(* registered at that point of the read.                                   *)
(***************************************************************************)
C12_OutOfBoundsReference ==
    \A hdr \in Headers, n \in 0..1, m \in 0..1, c \in Crafts :
        (/\ Finished
         /\ root.t = "bytes"
         /\ root.v = CraftedStream(hdr, n, m, CraftedPayload(c))
         /\ Unknown(c, n, m, hdr))
        => (pc = "failed" /\ decoder.err \in OutOfBoundsReference)

(***************************************************************************)
(* Truncated streams: the decoder is handed a strict prefix of the bytes   *)
(* the encoder returned.                                                   *)
(***************************************************************************)
InitTruncate == InitLeafOf(Leaves) \/ InitExample

Truncate ==
    /\ pc = "encoded"
    /\ \E k \in 0..(Len(encoded) - 1) : binary' = SubSeq(encoded, 1, k)
    /\ pc' = "received"
    /\ UNCHANGED <<heap, root, options, encoder, encoded, decoder, count, countBytes, countRead>>

NextTruncate ==
    \/ Encode
    \/ SerializeNext
    \/ SerializeTOS
    \/ Truncate
    \/ UnserializeTOS
    \/ UnserializeNext

SpecTruncate == InitTruncate /\ [][NextTruncate]_vars

(***************************************************************************)
(* C13: for every value v and every strict prefix b of encode(v), encoded  *)
(* without CRC, including the empty prefix and prefixes that end inside a  *)
(* table string or a multi-byte field, decode(b) fails with an error and   *)
(* never returns a value.                                                  *)
(***************************************************************************)
C13_Truncated ==
    (/\ Finished
     /\ ~options.hasCRC
     /\ Len(binary) < Len(encoded)
     /\ binary = SubSeq(encoded, 1, Len(binary)))
    => (pc = "failed" /\ decoder.err # "" /\ ~decoder.done)

\* a prefix that ends inside a table string, and one that ends inside the
\* count of a string reference, have both been read to their failure
C13_Witness ==
    /\ pc = "failed"
    /\ ~options.hasCRC
    /\ root.t = "str"
    /\ root.v = <<97, 8364>>
    /\ Len(binary) \in {5, Len(encoded) - 1}
    /\ binary = SubSeq(encoded, 1, Len(binary))

(***************************************************************************)
(* Values outside the universe and objects with a toJSON method.           *)
(***************************************************************************)
Key_a == <<97>>
Key_b == <<98>>

\* var user = { firstName: "John", lastName: "Smith", get fullName() {...},
\*              toJSON: function() { return { firstName: ..., lastName: ... }; } }
\* with the names f, l, n and the strings J, S: container 1 is user and
\* container 2 the mapping its toJSON returns
UserExample ==
    << Container("obj", <<<<102>>, <<108>>, <<110>>, ToJSON>>,
                 <<VStr(<<74>>), VStr(<<83>>), VStr(<<74, 32, 83>>), VFunc(2)>>),
       Container("obj", <<<<102>>, <<108>>>>, <<VStr(<<74>>), VStr(<<83>>)>>) >>

WalkExamples ==
    << [heap |-> <<>>, root |-> VFunc(0)],
       [heap |-> <<>>, root |-> VSymbol],
       [heap |-> <<Container("arr", <<>>, <<VFunc(0)>>)>>, root |-> VRef(1)],
       [heap |-> <<Container("arr", <<>>, <<VSymbol>>)>>, root |-> VRef(1)],
       [heap |-> <<Container("arr", <<>>, <<VRef(2)>>),
                   Container("arr", <<>>, <<VFunc(0)>>)>>, root |-> VRef(1)],
       [heap |-> <<Container("arr", <<>>, <<VBool(TRUE), VRef(2)>>),
                   Container("arr", <<>>, <<VStr(Key_a), VSymbol>>)>>, root |-> VRef(1)],
       [heap |-> <<Container("obj", <<Key_a>>, <<VSymbol>>)>>, root |-> VRef(1)],
       [heap |-> <<Container("obj", <<Key_a>>, <<VRef(2)>>),
                   Container("arr", <<>>, <<VFunc(0)>>)>>, root |-> VRef(1)],
       [heap |-> <<Container("obj", <<Key_a, Key_b>>, <<VFunc(0), VBool(TRUE)>>)>>,
        root |-> VRef(1)],
       [heap |-> <<Container("obj", <<Key_a>>, <<VRef(2)>>),
                   Container("obj", <<Key_a, Key_b>>, <<VNull, VSymbol>>)>>, root |-> VRef(1)],
       [heap |-> UserExample, root |-> VRef(1)],
       [heap |-> UserExample \o <<Container("arr", <<>>, <<VRef(1), VRef(1)>>)>>,
        root |-> VRef(3)],
       [heap |-> UserExample \o <<Container("obj", <<Key_a, Key_b>>, <<VRef(1), VRef(1)>>)>>,
        root |-> VRef(3)],
       [heap |-> <<Container("obj", <<Key_a, ToJSON>>, <<VBool(TRUE), VFunc(0)>>)>>,
        root |-> VRef(1)],
       [heap |-> <<Container("obj", <<Key_a, ToJSON>>, <<VBool(TRUE), VStr(Key_a)>>)>>,
        root |-> VRef(1)],
       [heap |-> <<Container("obj", <<Key_a, ToJSON>>, <<VNum(NumOf(1)), VFunc(1)>>)>>,
        root |-> VRef(1)],
       [heap |-> <<Container("obj", <<Key_a, ToJSON>>, <<VNum(NumOf(1)), VFunc(2)>>),
                   Container("obj", <<Key_a, Key_b>>, <<VRef(1), VRef(3)>>),
                   Container("arr", <<>>, <<VRef(1), VSymbol>>)>>, root |-> VRef(1)],
       [heap |-> <<Container("obj", <<Key_a, ToJSON>>, <<VNum(NumOf(1)), VFunc(2)>>),
                   Container("obj", <<Key_a, Key_b>>, <<VRef(1), VRef(3)>>),
                   Container("arr", <<>>, <<VRef(1), VStr(Key_b)>>)>>, root |-> VRef(1)] >>

InitWalk ==
    /\ \E i \in 1..Len(WalkExamples) :
          heap = WalkExamples[i].heap /\ root = WalkExamples[i].root
    /\ pc = "ready"
    /\ count = NumOf(0)
    /\ Idle

NextWalk ==
    \/ Encode
    \/ SerializeNext
    \/ SerializeTOS
    \/ Transmit
    \/ UnserializeTOS
    \/ UnserializeNext

SpecWalk == InitWalk /\ [][NextWalk]_vars

\* the containers whose slots the walk serializes after those of the set S:
\* the containers named by the serialized slots of the projections
WalkStep(h, S) ==
    S \cup UNION {{h[Projection(h, id)].vals[i].v :
                      i \in {j \in 1..Len(h[Projection(h, id)].vals) :
                                /\ h[Projection(h, id)].vals[j].t = "ref"}} :
                  id \in {x \in S : Projection(h, x) # 0}}

RECURSIVE WalkClosure(_, _, _)
WalkClosure(h, S, n) == IF n = 0 THEN S ELSE WalkClosure(h, WalkStep(h, S), n - 1)

Walked(h, obj) == IF obj.t = "ref" THEN WalkClosure(h, {obj.v}, Len(h)) ELSE {}

OutsideUniverse(v) == v.t \in {"func", "symbol"}

\* the walk from obj meets a function or a symbol as the top-level value or
\* as an array element, or a symbol as the value of an object property
ReachesUnsupported(h, obj) ==
    \/ OutsideUniverse(obj)
    \/ \E id \in {x \in Walked(h, obj) : Projection(h, x) # 0} :
          \E i \in 1..Len(h[Projection(h, id)].vals) :
             \/ h[Projection(h, id)].vals[i].t = "symbol"
             \/ h[id].kind = "arr" /\ h[id].vals[i].t = "func"

(***************************************************************************)
(* C14: encode fails with the unsupported-type error and returns no bytes  *)
(* whenever the walk reaches a function or a symbol as the top-level value *)
(* or as an array element at any depth, or a symbol as an object property  *)
(* value: the walk never completes, and it ends in that error.             *)
(***************************************************************************)
C14_UnsupportedType ==
    ReachesUnsupported(heap, root)
    => /\ pc \in {"ready", "walk", "encodeFailed"}
       /\ pc = "encodeFailed" => encoder.err = "unsupported"
       /\ pc = "walk" => encoder.err = "" /\ encoder.stack # <<>>
       /\ encoded = <<>>

\* a symbol two arrays deep has stopped the walk after bytes were written
C14_Witness ==
    /\ pc = "encodeFailed"
    /\ encoder.err = "unsupported"
    /\ root.t = "ref"
    /\ Len(heap) = 2
    /\ heap[2].kind = "arr"
    /\ Len(heap[2].vals) = 2
    /\ heap[2].vals[2].t = "symbol"
    /\ Len(encoder.ds) > 2
    /\ encoded = <<>>

\* the strings of a table, each followed by one NUL byte
RECURSIVE Terminated(_)
Terminated(strings) ==
    IF strings = <<>> THEN <<>>
    ELSE encode_utf8(strings[1]) \o <<0>> \o Terminated(Tail(strings))

\* the bytes after the header byte and the checksum: both tables, the payload
AfterHeader(e) ==
    Count(Len(e.string_keys)) \o Terminated(e.string_keys)
        \o Count(Len(e.string_refs)) \o Terminated(e.string_refs)
        \o e.ds

(***************************************************************************)
(* C15: for every value and every setting of hasCRC, encode returns        *)
(* exactly the header byte, then (iff hasCRC) 4 CRC bytes, then count(n)   *)
(* and the n names each NUL-terminated, then count(m) and the m interned   *)
(* strings each NUL-terminated, then the payload, and nothing else; byte 0 *)
(* has low nibble 1, bits 4 and 5 zero and bit 7 set iff hasCRC; encode of *)
(* true is exactly 41 00 00 01.                                            *)
(***************************************************************************)
C15_Layout ==
    encoded # <<>>
    => /\ encoded[1] % 16 = 1
       /\ (encoded[1] \div 16) % 4 = 0
       /\ (encoded[1] \div 128 = 1) <=> options.hasCRC
       /\ Len(encoded) = 1 + (IF options.hasCRC THEN 4 ELSE 0) + Len(AfterHeader(encoder))
       /\ SubSeq(encoded, Len(encoded) - Len(AfterHeader(encoder)) + 1, Len(encoded))
             = AfterHeader(encoder)
       /\ (root.t = "bool" /\ root.v /\ ~options.hasCRC) => encoded = <<65, 0, 0, 1>>

\* encode(true) has returned 41 00 00 01
C15_Witness ==
    /\ pc = "encoded"
    /\ root.t = "bool"
    /\ root.v
    /\ ~options.hasCRC
    /\ encoded = <<65, 0, 0, 1>>

\* the elements of seq at the indices idx, in that order
Select(seq, idx) == [k \in 1..Len(idx) |-> seq[idx[k]]]

\* the graph the encoder serializes: every object with a toJSON method is
\* replaced by the mapping the method returns, and properties that hold a
\* function are left out
Plain(h) ==
    [id \in 1..Len(h) |->
        IF Projection(h, id) = 0 \/ h[id].kind = "arr" THEN h[id]
        ELSE Container("obj",
                       Select(h[Projection(h, id)].keys, OwnKeys(h[Projection(h, id)])),
                       Select(h[Projection(h, id)].vals, OwnKeys(h[Projection(h, id)])))]

\* the walk from obj reaches an object with a toJSON method, every such
\* method returns a mapping, and no value outside the universe is reached
HonorsToJSON(h, obj) ==
    /\ \E id \in Walked(h, obj) : HasToJSON(h[id])
    /\ \A id \in Walked(h, obj) : Projection(h, id) # 0
    /\ ~ReachesUnsupported(h, obj)

Walking == pc \in {"ready", "walk"}

(***************************************************************************)
(* C16: when an object has a toJSON method the encoder calls it exactly    *)
(* once for that object, even if the object occurs several times in the    *)
(* graph, and serializes the keys and values of the returned mapping in    *)
(* place of the object's own, so that decode(encode(user)) equals the      *)
(* mapping toJSON returned.                                                *)
(***************************************************************************)
C16_ToJSONHonored ==
    HonorsToJSON(heap, root)
    => /\ \A i, j \in 1..Len(encoder.calls) :
             encoder.calls[i] = encoder.calls[j] => i = j
       /\ \A i \in 1..Len(encoder.calls) :
             encoder.calls[i] \in {id \in Walked(heap, root) : HasToJSON(heap[id])}
       /\ ~Walking =>
             \A id \in {x \in Walked(heap, root) : HasToJSON(heap[x])} :
                \E i \in 1..Len(encoder.calls) : encoder.calls[i] = id
       /\ pc \notin {"encodeFailed", "failed"}
       /\ pc = "done" =>
             /\ StructEq(Plain(heap), root, decoder.heap, decoder.result)
             /\ StructEq(decoder.heap, decoder.result, Plain(heap), root)
             /\ IdentityKept(Plain(heap), root, decoder.heap, decoder.result)

\* [user, user] has been encoded and decoded: user occurs twice, its toJSON
\* was called once and both elements are the decoded mapping
C16_Witness ==
    /\ pc = "done"
    /\ Len(heap) = 3
    /\ heap[3].kind = "arr"
    /\ Occurrences(heap, root, 1) = 2
    /\ HasToJSON(heap[1])
    /\ encoder.calls = <<1>>
    /\ decoder.heap[decoder.heap[decoder.result.v].vals[1].v].keys = <<<<102>>, <<108>>>>

\* the slot the next step of the walk serializes: its container and value
WalkTop == encoder.stack[Len(encoder.stack)]

WalkSlot == OwnKeys(heap[WalkTop.src])[WalkTop.i]

WalkValue == heap[WalkTop.src].vals[WalkSlot]

\* the number of bytes the next step writes before the tag of the value
KeyBytes ==
    IF heap[WalkTop.src].kind = "arr" THEN 0
    ELSE Len(serializeKey(encoder, heap[WalkTop.src].keys[WalkSlot]).ds) - Len(encoder.ds)

\* the next step of the walk meets a container that is in the identity map
EmitsByReference ==
    /\ pc = "walk"
    /\ IsRef(WalkValue)
    /\ WalkValue.v \in DOMAIN encoder.object_refs

\* the tag byte written by the step of the walk that has just been taken
WrittenTagOfStep == encoder'.ds[Len(encoder.ds) + KeyBytes + 1]

HasCycleLatch ==
    /\ pc \in {"build", "ready"} => ~encoder.hasCycle
    /\ EmitsByReference =>
          /\ encoder'.hasCycle
          /\ WrittenTagOfStep = TAG_OBJECT_REF
    /\ (pc = "walk" /\ ~EmitsByReference /\ encoder'.err = "") =>
          /\ encoder'.hasCycle = encoder.hasCycle
          /\ WrittenTagOfStep # TAG_OBJECT_REF
    /\ (pc \in {"build", "ready"} /\ encoder'.ds # <<>>) =>
          /\ ~encoder'.hasCycle
          /\ encoder'.ds[1] # TAG_OBJECT_REF
    /\ pc \notin {"build", "ready", "walk"} => encoder'.hasCycle = encoder.hasCycle
    /\ encoded' # <<>> => (NoCycleBit' <=> ~encoder'.hasCycle)

(***************************************************************************)
(* C17: bit 6 (NOCYCLE) of byte 0 is set if and only if the payload holds  *)
(* no by-reference tag 0x07: hasCycle starts false, every step that emits  *)
(* an object or array by reference sets it, no other step changes it, it   *)
(* is never reset, and the header bit is its negation.                     *)
(***************************************************************************)
C17_HasCycleLatch == [][HasCycleLatch]_vars

\* a by-reference tag has been written, the flag is latched and the walk
\* goes on
C17_Witness ==
    /\ pc = "walk"
    /\ encoder.hasCycle
    /\ encoder.ds[Len(encoder.ds) - 1] = TAG_OBJECT_REF
    /\ encoder.stack # <<>>

\* the payload [[], <reference to the inner array>]: an array whose second
\* element names the tag position 2 of its first element
DuplicatePayload == CraftedPayload([k |-> "back", i |-> NumOf(2)])

\* the argument of decode is that payload behind header byte hdr
IsDuplicateStream(hdr) ==
    /\ root.t = "bytes"
    /\ \E n \in 0..1, m \in 0..1 : root.v = CraftedStream(hdr, n, m, DuplicatePayload)

\* decode returned an array whose two elements are one and the same array
ResolvedToEarlier ==
    /\ pc = "done"
    /\ IsRef(decoder.result)
    /\ Len(decoder.heap[decoder.result.v].vals) = 2
    /\ IsRef(decoder.heap[decoder.result.v].vals[1])
    /\ IsRef(decoder.heap[decoder.result.v].vals[2])
    /\ decoder.heap[decoder.result.v].vals[2].v = decoder.heap[decoder.result.v].vals[1].v

(***************************************************************************)
(* C18 as stated: a stream whose NOCYCLE bit is set and whose payload      *)
(* holds a by-reference tag naming the tag position of a container that    *)
(* occurs earlier in the payload decodes successfully, the reference       *)
(* resolving to that earlier container.                                    *)
(***************************************************************************)
C18_NoCycleReferenceResolves ==
    (Finished /\ IsDuplicateStream(MAJOR_VERSION + OPTION_NOCYCLE)) => ResolvedToEarlier

(***************************************************************************)
(* C18 amended: a by-reference tag naming the tag position of an earlier   *)
(* container resolves to that container when the NOCYCLE bit is clear;     *)
(* when the bit is set the decoder has registered no container and decode  *)
(* fails with the invalid-object-reference error.                          *)
(***************************************************************************)
C18_ReferenceNeedsClearBit ==
    /\ (Finished /\ IsDuplicateStream(MAJOR_VERSION)) => ResolvedToEarlier
    /\ (Finished /\ IsDuplicateStream(MAJOR_VERSION + OPTION_NOCYCLE))
          => (pc = "failed" /\ decoder.err = "ref" /\ decoder.object_refs = <<>>)

\* the stream with the bit set has been read up to its by-reference tag
C18_Witness ==
    /\ pc = "failed"
    /\ IsDuplicateStream(MAJOR_VERSION + OPTION_NOCYCLE)
    /\ decoder.err = "ref"
    /\ Len(decoder.heap) = 2

\* the position the encoder recorded for container id is the position, in the
\* payload, of the tag byte of its by-value occurrence
TagByteRecorded ==
    \A id \in DOMAIN encoder.object_refs :
       /\ encoder.object_refs[id] < Len(encoder.ds)
       /\ encoder.ds[encoder.object_refs[id] + 1]
             = (IF heap[id].kind = "arr" THEN TAG_ARRAY ELSE TAG_OBJECT)

\* a step that writes a container by reference writes tag 0x07 and the count
\* of the position recorded for that container
CountIsTagPosition ==
    EmitsByReference =>
        SubSeq(encoder'.ds, Len(encoder.ds) + KeyBytes + 1, Len(encoder'.ds))
           = <<TAG_OBJECT_REF>> \o Count(encoder.object_refs[WalkValue.v])

\* the decoder has registered, under offset + the recorded position, the
\* container it read for each container the encoder recorded, and no other
RegisteredAtSamePoint ==
    /\ DOMAIN decoder.object_refs
          = {decoder.offset + encoder.object_refs[id] : id \in DOMAIN encoder.object_refs}
    /\ \A id \in DOMAIN encoder.object_refs :
          <<id, decoder.object_refs[decoder.offset + encoder.object_refs[id]]>>
             \in Corresponding(heap, root, decoder.heap, decoder.result)

\* every entry of the decoder is at offset + a position the encoder recorded
RegisteredSoFar ==
    \A k \in DOMAIN decoder.object_refs :
       \E id \in DOMAIN encoder.object_refs : k = decoder.offset + encoder.object_refs[id]

\* the decoder is reading, or has read, the payload the encoder wrote
Reading == pc \in {"read", "done", "failed"} /\ Intact /\ encoded # <<>>

Decoded == pc = "done" /\ Intact /\ encoded # <<>>

RegistrationPoints ==
    /\ CountIsTagPosition
    /\ TagByteRecorded'
    /\ Reading' => (pc' # "failed" /\ decoder'.offset = PayloadStart')
    /\ Reading' => RegisteredSoFar'
    /\ Decoded' => RegisteredAtSamePoint'

RegistrationPointsUnlessNoCycle ==
    /\ CountIsTagPosition
    /\ TagByteRecorded'
    /\ Reading' => (pc' # "failed" /\ decoder'.offset = PayloadStart')
    /\ (Reading' /\ ~NoCycleBit') => RegisteredSoFar'
    /\ (Decoded' /\ ~NoCycleBit') => RegisteredAtSamePoint'
    /\ (Reading' /\ NoCycleBit') => decoder'.object_refs = <<>>

(***************************************************************************)
(* C19 as stated: the count written after every 0x07 tag is the payload    *)
(* position of the tag byte of the referenced container, and the decoder   *)
(* registers every container under offset + that position, so the two      *)
(* registration points coincide for every container of every encoded graph.*)
(***************************************************************************)
C19_RegistrationPoints == [][RegistrationPoints]_vars

(***************************************************************************)
(* C19 amended: the count written after every 0x07 tag is the payload      *)
(* position of the tag byte of the referenced container; when the NOCYCLE  *)
(* bit is clear the decoder registers every container under offset + that  *)
(* position, offset being the position of the first payload byte, and when *)
(* the bit is set it registers no container.                               *)
(***************************************************************************)
C19_RegistrationPointsUnlessNoCycle == [][RegistrationPointsUnlessNoCycle]_vars

\* a graph with a by-reference tag has been decoded from a stream with a
\* checksum and names: the decoder holds one entry for each container, at the
\* encoder's position moved by the length of the header and tables
C19_Witness ==
    /\ Decoded
    /\ options.hasCRC
    /\ ~NoCycleBit
    /\ decoder.offset > 6
    /\ Cardinality(DOMAIN decoder.object_refs) >= 2
    /\ RegisteredAtSamePoint

\* a step of encode: its first, on the top-level value, or one of the walk
IsEncodeStep == pc \in {"build", "ready"} /\ pc' \in {"walk", "tos", "encodeFailed"}

IsWalkStep == pc = "walk"

\* the value such a step serializes and the bytes it writes before its tag
StepValue == IF IsWalkStep THEN WalkValue ELSE root

StepKeyBytes == IF IsWalkStep THEN KeyBytes ELSE 0

ContainerTag(c) == IF c.kind = "arr" THEN TAG_ARRAY ELSE TAG_OBJECT

\* the step writes container id by value: its tag at the position recorded
\* for it, and its body is entered
WritesByValue(id) ==
    /\ id \in DOMAIN encoder'.object_refs
    /\ encoder'.object_refs[id] = Len(encoder.ds) + StepKeyBytes
    /\ encoder'.ds[encoder'.object_refs[id] + 1] = ContainerTag(heap[id])
    /\ \/ Len(heap[id].vals) = 0
       \/ /\ Len(encoder'.stack) = Len(encoder.stack) + 1
          /\ encoder'.stack[Len(encoder'.stack)].id = id

\* the step writes container id by reference: tag 0x07 and the position
\* recorded for it, and its body is not entered
WritesByReference(id) ==
    /\ SubSeq(encoder'.ds, Len(encoder.ds) + StepKeyBytes + 1, Len(encoder'.ds))
          = <<TAG_OBJECT_REF>> \o Count(encoder.object_refs[id])
    /\ Len(encoder'.stack) <= Len(encoder.stack)
    /\ \A k \in 1..Len(encoder'.stack) : encoder'.stack[k] = encoder.stack[k]
          \/ (k = Len(encoder.stack) /\ encoder'.stack[k].id = encoder.stack[k].id)

IdentityMapStep ==
    /\ \A id \in DOMAIN encoder.object_refs :
          /\ id \in DOMAIN encoder'.object_refs
          /\ encoder'.object_refs[id] = encoder.object_refs[id]
    /\ ~(IsEncodeStep \/ IsWalkStep) => encoder'.object_refs = encoder.object_refs
    /\ (IsEncodeStep \/ IsWalkStep) =>
          /\ \A id \in DOMAIN encoder'.object_refs \ DOMAIN encoder.object_refs :
                IsRef(StepValue) /\ StepValue.v = id
          /\ (IsRef(StepValue) /\ StepValue.v \notin DOMAIN encoder.object_refs)
                => WritesByValue(StepValue.v)
          /\ (IsRef(StepValue) /\ StepValue.v \in DOMAIN encoder.object_refs)
                => WritesByReference(StepValue.v)

(***************************************************************************)
(* C20: during the walk a container enters the identity map in the step    *)
(* that writes its by-value tag and not before, and is never removed or    *)
(* re-registered; the first occurrence of each array or object is emitted  *)
(* by value, every later occurrence as 0x07 with the same position, and    *)
(* the body of each container is emitted exactly once.                     *)
(***************************************************************************)
C20_IdentityMap == [][IdentityMapStep]_vars

\* the shared array of the example was written by value, then by reference,
\* and the walk is over
C20_Witness ==
    /\ pc = "tos"
    /\ Len(heap) = 2
    /\ Occurrences(heap, root, 2) = 2
    /\ DOMAIN encoder.object_refs = {1, 2}
    /\ encoder.hasCycle
    /\ encoder.ds[encoder.object_refs[2] + 1] = TAG_ARRAY

(***************************************************************************)
(* Graphs with several names and strings, repeated strings, the empty      *)
(* string, properties that hold a function, and repeated dates and byte    *)
(* buffers.                                                                *)
(***************************************************************************)
Key_c == <<99>>

Key_d == <<100>>

ADate == VDate(NumOf(86400000))

ABuffer == VBytes(<<7, 0, 255>>)

ValueExamples ==
    << [heap |-> <<>>, root |-> VStr(<<>>)],
       [heap |-> <<>>, root |-> VStr(Key_b)],
       [heap |-> <<>>, root |-> ADate],
       [heap |-> <<>>, root |-> ABuffer],
       [heap |-> <<Container("arr", <<>>,
                     <<VStr(Key_b), VStr(Key_a), VStr(Key_b), VStr(<<>>),
                       VStr(Key_a), VStr(<<>>), VStr(Key_c)>>)>>,
        root |-> VRef(1)],
       [heap |-> <<Container("obj", <<Key_b, Key_a, Key_c>>,
                             <<VStr(Key_a), VRef(2), VStr(<<>>)>>),
                   Container("obj", <<Key_a, Key_d, Key_b>>,
                             <<VStr(Key_c), VStr(Key_a), VStr(Key_d)>>)>>,
        root |-> VRef(1)],
       [heap |-> <<Container("arr", <<>>, <<VRef(2), VRef(3), VRef(2)>>),
                   Container("obj", <<Key_c>>, <<VNum(NumOf(1))>>),
                   Container("obj", <<Key_d, Key_c, <<>>>>,
                             <<VStr(Key_c), VNum(NumOf(3)), VStr(<<>>)>>)>>,
        root |-> VRef(1)],
       [heap |-> <<Container("obj", <<Key_a, Key_b, Key_c, Key_d>>,
                             <<VFunc(0), VBool(TRUE), VFunc(0), VStr(Key_a)>>)>>,
        root |-> VRef(1)],
       [heap |-> <<Container("obj", <<Key_a, Key_b>>, <<VFunc(0), VFunc(0)>>)>>,
        root |-> VRef(1)],
       [heap |-> <<Container("arr", <<>>, <<VRef(2), VRef(3)>>),
                   Container("obj", <<Key_d, Key_a>>, <<VNull, VFunc(0)>>),
                   Container("obj", <<Key_a, Key_b, Key_c>>,
                             <<VFunc(0), VRef(2), VUndef>>)>>,
        root |-> VRef(1)],
       [heap |-> <<Container("arr", <<>>, <<ADate, ADate, ABuffer, ABuffer, ADate>>)>>,
        root |-> VRef(1)],
       [heap |-> <<Container("obj", <<Key_a, Key_b, Key_c>>, <<ABuffer, VRef(2), ABuffer>>),
                   Container("arr", <<>>, <<ADate, ABuffer, ADate>>)>>,
        root |-> VRef(1)],
       [heap |-> <<Container("obj", <<Key_a, Key_b, Key_c>>, <<ADate, VRef(2), VRef(2)>>),
                   Container("arr", <<>>, <<ADate, ABuffer>>)>>,
        root |-> VRef(1)] >>

InitValues ==
    /\ \E i \in 1..Len(ValueExamples) :
          heap = ValueExamples[i].heap /\ root = ValueExamples[i].root
    /\ pc = "ready"
    /\ count = NumOf(0)
    /\ Idle

\* encode(obj), called without options
EncodePlain ==
    /\ pc = "ready"
    /\ options' = [hasCRC |-> FALSE]
    /\ encoder' = EndLoops(heap, serializeComponent(heap, NewEncoder, root))
    /\ pc' = IF encoder'.err # "" THEN "encodeFailed"
             ELSE IF encoder'.stack = <<>> THEN "tos" ELSE "walk"
    /\ UNCHANGED <<heap, root, encoded, binary, decoder, count, countBytes, countRead>>

NextValues ==
    \/ EncodePlain
    \/ SerializeNext
    \/ SerializeTOS
    \/ Transmit
    \/ UnserializeTOS
    \/ UnserializeNext

SpecValues == InitValues /\ [][NextValues]_vars

IsPrefix(s, t) == Len(s) <= Len(t) /\ SubSeq(t, 1, Len(s)) = s

NoDuplicate(s) == \A i, j \in 1..Len(s) : s[i] = s[j] => i = j

\* the step of the walk writes a property name: the top loop is an object's
WritesName == IsWalkStep /\ heap[WalkTop.src].kind = "obj"

StepName == heap[WalkTop.src].keys[WalkSlot]

\* s has index n in table t after the step, and entered t in this step
\* exactly when it was not in it before
Interned(s, before, after, n) ==
    /\ after = (IF IndexOf(before, s) = 0 THEN Append(before, s) ELSE before)
    /\ n = IndexOf(after, s)

InterningStep ==
    /\ NoDuplicate(encoder'.string_keys)
    /\ NoDuplicate(encoder'.string_refs)
    /\ \A i \in 1..Len(encoder'.string_refs) : encoder'.string_refs[i] # <<>>
    /\ (IsEncodeStep \/ IsWalkStep) =>
          /\ IsPrefix(encoder.string_keys, encoder'.string_keys)
          /\ IsPrefix(encoder.string_refs, encoder'.string_refs)
          /\ IF WritesName
             THEN \E n \in 1..Len(encoder'.string_keys) :
                     /\ Interned(StepName, encoder.string_keys, encoder'.string_keys, n)
                     /\ SubSeq(encoder'.ds, Len(encoder.ds) + 1,
                               Len(encoder.ds) + StepKeyBytes) = Count(n - 1)
             ELSE encoder'.string_keys = encoder.string_keys
          /\ IF StepValue.t = "str" /\ StepValue.v # <<>>
             THEN \E m \in 1..Len(encoder'.string_refs) :
                     /\ Interned(StepValue.v, encoder.string_refs, encoder'.string_refs, m)
                     /\ SubSeq(encoder'.ds, Len(encoder.ds) + StepKeyBytes + 1,
                               Len(encoder'.ds)) = <<TAG_STRING_REF>> \o Count(m)
             ELSE encoder'.string_refs = encoder.string_refs
          /\ (StepValue.t = "str" /\ StepValue.v = <<>>) =>
                SubSeq(encoder'.ds, Len(encoder.ds) + StepKeyBytes + 1,
                       Len(encoder'.ds)) = <<TAG_STRING_REF, 0>>
    /\ (encoded = <<>> /\ encoded' # <<>>) =>
          /\ encoder'.string_keys = encoder.string_keys
          /\ encoder'.string_refs = encoder.string_refs
          /\ SubSeq(encoded', Len(encoded') - Len(AfterHeader(encoder)) + 1,
                    Len(encoded') - Len(encoder.ds))
                = Count(Len(encoder.string_keys)) \o Terminated(encoder.string_keys)
                     \o Count(Len(encoder.string_refs)) \o Terminated(encoder.string_refs)

(***************************************************************************)
(* C21: the name map gives the distinct property names the indices 0..n-1  *)
(* in first-seen order and the value map gives the distinct non-empty      *)
(* strings the indices 1..m in first-seen order: a step of the walk        *)
(* appends a name or a string to its table exactly when it is new and      *)
(* writes its index (0-based for names, 1-based for strings), a repeated   *)
(* string reuses its index, the empty string is written as index 0 and is  *)
(* never stored, and the prefix lists both tables in index order.          *)
(***************************************************************************)
C21_Interning == [][InterningStep]_vars

\* {b:"a", a:{a:"c", d:"a", b:"d"}, c:""} has been walked: the names are
\* b, a, d, c, the strings a, c, d, and the last value is the empty string
C21_Witness ==
    /\ pc = "tos"
    /\ encoder.string_keys = <<Key_b, Key_a, Key_d, Key_c>>
    /\ encoder.string_refs = <<Key_a, Key_c, Key_d>>
    /\ SubSeq(encoder.ds, Len(encoder.ds) - 2, Len(encoder.ds)) = <<3, TAG_STRING_REF, 0>>

(***************************************************************************)
(* C22: every string, property name or string value, comes back unchanged  *)
(* from decode(encode(.)), the empty string, a string used both as a name  *)
(* and as a value and a string containing U+0000 included: the decoder's   *)
(* tables equal the encoder's tables entry for entry.                      *)
(***************************************************************************)
C22_StringsUnchanged ==
    (Finished /\ Intact /\ encoded # <<>>)
    => /\ pc = "done"
       /\ decoder.string_keys.size = Len(encoder.string_keys)
       /\ decoder.string_keys.items = encoder.string_keys
       /\ decoder.string_refs.size = Len(encoder.string_refs)
       /\ decoder.string_refs.items = encoder.string_refs
       /\ root.t = "str" => (decoder.result.t = "str" /\ decoder.result.v = root.v)

\* the slots of object c whose value is not a function
Retained(c) == {j \in 1..Len(c.vals) : c.vals[j].t # "func"}

\* the i-th of them in the object's key order
RetainedSlot(c, i) ==
    CHOOSE j \in Retained(c) : Cardinality({k \in Retained(c) : k <= j}) = i

\* the step emits an object by value and does not fail
EmitsObjectByValue ==
    /\ IsEncodeStep \/ IsWalkStep
    /\ IsRef(StepValue)
    /\ heap[StepValue.v].kind = "obj"
    /\ StepValue.v \notin DOMAIN encoder.object_refs
    /\ encoder'.err = ""

\* the bytes the step writes after the property name, an object by value:
\* tag 0x30 and the number of retained keys; its loop is entered with the
\* first retained key next iff there is one
ObjectHead(obj) ==
    /\ SubSeq(encoder'.ds, Len(encoder.ds) + StepKeyBytes + 1, Len(encoder'.ds))
          = <<TAG_OBJECT>> \o Count(Cardinality(Retained(heap[Projection(heap, obj)])))
    /\ IF Retained(heap[Projection(heap, obj)]) = {}
       THEN Len(encoder'.stack) <= Len(encoder.stack)
       ELSE /\ Len(encoder'.stack) = Len(encoder.stack) + 1
            /\ encoder'.stack[Len(encoder'.stack)]
                  = [id |-> obj, src |-> Projection(heap, obj), i |-> 1]

\* the step of the loop of object c at counter i writes the pair of the
\* i-th retained key, slot j: the index of its name, then its value
ObjectPair(c, i, j) ==
    /\ i \in 1..Cardinality(Retained(c))
    /\ \E n \in 1..Len(encoder'.string_keys) :
          /\ encoder'.string_keys[n] = c.keys[j]
          /\ IsPrefix(Count(n - 1), SubSeq(encoder'.ds, Len(encoder.ds) + 1, Len(encoder'.ds)))
          /\ encoder'.err = "" =>
                /\ Len(encoder'.ds) > Len(encoder.ds) + Len(Count(n - 1))
                /\ encoder'.ds[Len(encoder.ds) + Len(Count(n - 1)) + 1]
                      = (IF IsRef(c.vals[j]) /\ c.vals[j].v \in DOMAIN encoder.object_refs
                         THEN TAG_OBJECT_REF ELSE getValueTag(heap, c.vals[j]))
    /\ encoder'.err = "" =>
          IF Len(encoder'.stack) >= Len(encoder.stack)
          THEN /\ encoder'.stack[Len(encoder.stack)].i = i + 1
               /\ i = Cardinality(Retained(c)) => Len(encoder'.stack) > Len(encoder.stack)
          ELSE i = Cardinality(Retained(c))

FunctionKeysOmitted ==
    /\ EmitsObjectByValue => ObjectHead(StepValue.v)
    /\ WritesName =>
          ObjectPair(heap[WalkTop.src], WalkTop.i, RetainedSlot(heap[WalkTop.src], WalkTop.i))

ByValueBytes(v) ==
    IF v.t = "date" THEN <<TAG_DATE>> \o writeFloat64(v.v)
    ELSE <<TAG_UINT8ARRAY>> \o Count(Len(v.v)) \o v.v

DateOrBufferStep ==
    /\ ((IsEncodeStep \/ IsWalkStep) /\ StepValue.t \in {"date", "bytes"}) =>
          /\ encoder'.err = ""
          /\ SubSeq(encoder'.ds, Len(encoder.ds) + StepKeyBytes + 1, Len(encoder'.ds))
                = ByValueBytes(StepValue)
          /\ encoder'.object_refs = encoder.object_refs
          /\ encoder'.hasCycle = encoder.hasCycle
    /\ (encoded' # <<>> /\ NoRepeat(heap, root)) => NoCycleBit'

(***************************************************************************)
(* C24: a date or a byte buffer that occurs several times in a graph is    *)
(* emitted by value at every occurrence, never as 0x07: the step that      *)
(* serializes it writes its tag and its bytes, leaves the identity map     *)
(* unchanged and leaves hasCycle unchanged, so that a graph in which only  *)
(* dates and byte buffers repeat is encoded with NOCYCLE set.              *)
(***************************************************************************)
C24_DatesAndBuffersByValue == [][DateOrBufferStep]_vars

\* [d, d, b, b, d] has been encoded: three dates and two buffers by value,
\* the array alone in the identity map, NOCYCLE set
C24_Witness ==
    /\ pc = "encoded"
    /\ Len(heap) = 1
    /\ heap[1].vals = <<ADate, ADate, ABuffer, ABuffer, ADate>>
    /\ NoCycleBit
    /\ DOMAIN encoder.object_refs = {1}
    /\ encoder.ds = <<TAG_ARRAY, 5>> \o ByValueBytes(ADate) \o ByValueBytes(ADate)
                       \o ByValueBytes(ABuffer) \o ByValueBytes(ABuffer)
                       \o ByValueBytes(ADate)

\* the argument of decode is a crafted stream of kind k
IsCraft(k) ==
    /\ root.t = "bytes"
    /\ \E hdr \in Headers, n \in 0..1, m \in 0..1, c \in Crafts :
          c.k = k /\ root.v = CraftedStream(hdr, n, m, CraftedPayload(c))

(***************************************************************************)
(* C25 as stated: the count reader accepts at most 5 bytes for one count:  *)
(* when 5 consecutive bytes all have the continuation bit set, the read    *)
(* fails as malformed instead of reading a sixth byte or returning a       *)
(* value.                                                                  *)
(***************************************************************************)
C25_CountAtMostFiveBytes ==
    (IsCraft("long") /\ Finished)
    => /\ pc = "failed"
       /\ decoder.pos < Len(binary)

\* the bytes that follow the count of a craft of kind k
BytesAfterCount(k) == IF k = "obj" THEN 2 ELSE 1

\* decode's argument is an "arr", "obj" or "buf" craft whose count exceeds
\* the bytes that remain after it
CountExceedsInput ==
    /\ root.t = "bytes"
    /\ \E hdr \in Headers, n \in 0..1, m \in 0..1, c \in Crafts :
          /\ c.k \in {"arr", "obj", "buf"}
          /\ NumLt(NumOf(BytesAfterCount(c.k)), c.i)
          /\ root.v = CraftedStream(hdr, n, m, CraftedPayload(c))

(***************************************************************************)
(* C26 as stated: when a count read as an array length, an object property *)
(* count or a byte-buffer length exceeds the number of bytes remaining in  *)
(* the input, decode fails at the moment the count has been read, before   *)
(* it materializes any element or property and before it allocates the     *)
(* byte buffer: no loop is ever entered with more values left to read than *)
(* bytes remain, and such a stream ends in failure with empty containers.  *)
(***************************************************************************)
C26_CountWithinInput ==
    /\ pc = "read" =>
          \A k \in 1..Len(decoder.stack) :
             decoder.stack[k].left <= Len(binary) - decoder.pos
    /\ (CountExceedsInput /\ Finished) =>
          /\ pc = "failed"
          /\ \A id \in 1..Len(decoder.heap) : decoder.heap[id].vals = <<>>

\* the loop on top of the decoder's stack
ReadTop == decoder.stack[Len(decoder.stack)]

InObjectLoop == decoder.stack # <<>> /\ decoder.heap[ReadTop.id].kind = "obj"

\* the position of the tag the next step of the read reads: the cursor, or
\* the position after the property name index
TagPosition ==
    IF InObjectLoop THEN unserializeCount(binary, decoder.pos).pos ELSE decoder.pos

\* the next step of the read reads tag t (after a property name index that
\* is in the table, in the loop of an object)
ReadsTag(t) ==
    /\ pc = "read"
    /\ InObjectLoop =>
          /\ unserializeCount(binary, decoder.pos).err = ""
          /\ WordToInt(unserializeCount(binary, decoder.pos).w) < decoder.string_keys.size
    /\ TagPosition < Len(binary)
    /\ binary[TagPosition + 1] = t

\* the containers whose body is being read
UnderConstruction == {decoder.stack[k].id : k \in 1..Len(decoder.stack)}

\* the next step reads a 0x07 tag that names the position of container id
ReadsReferenceTo(id) ==
    /\ ReadsTag(TAG_OBJECT_REF)
    /\ unserializeCount(binary, TagPosition + 1).err = ""
    /\ \E p \in DOMAIN decoder.object_refs :
          /\ p = WordToInt(unserializeCount(binary, TagPosition + 1).w) + decoder.offset
          /\ decoder.object_refs[p] = id

\* container c holds a reference to container id in slot j
HoldsAt(c, j, id) == j \in 1..Len(c.vals) /\ c.vals[j].t = "ref" /\ c.vals[j].v = id

RegisteredBeforeBody ==
    /\ (ReadsTag(TAG_OBJECT) \/ ReadsTag(TAG_ARRAY)) =>
          /\ Len(decoder'.heap) = Len(decoder.heap) + 1
          /\ decoder'.heap[Len(decoder'.heap)].vals = <<>>
          /\ IF decoder.hasCycle
             THEN /\ TagPosition \in DOMAIN decoder'.object_refs
                  /\ decoder'.object_refs[TagPosition] = Len(decoder'.heap)
             ELSE decoder'.object_refs = decoder.object_refs
          /\ (decoder'.err = "" /\ Len(decoder'.stack) > Len(decoder.stack)) =>
                decoder'.stack[Len(decoder'.stack)].id = Len(decoder'.heap)
    /\ \A id \in UnderConstruction :
          ReadsReferenceTo(id) =>
             /\ decoder'.err = ""
             /\ \E j \in 1..Len(decoder'.heap[ReadTop.id].vals) :
                   /\ HoldsAt(decoder'.heap[ReadTop.id], j, id)
                   /\ ~HoldsAt(decoder.heap[ReadTop.id], j, id)
    /\ pc = "read" =>
          \A id \in 1..Len(decoder.heap) : \A j \in 1..Len(decoder.heap[id].vals) :
             HoldsAt(decoder.heap[id], j, id) => HoldsAt(decoder'.heap[id], j, id)

(***************************************************************************)
(* C27: when the NOCYCLE bit is clear, the decoder registers a freshly     *)
(* created empty array or object under its tag-byte position before it     *)
(* reads the container's count and body; a 0x07 tag inside the body that   *)
(* names the position of a container under construction resolves to that   *)
(* container, which is stored in the body and stays there, so the          *)
(* container finally returned contains itself.                             *)
(***************************************************************************)
C27_SelfReference == [][RegisteredBeforeBody]_vars

\* a stream with NOCYCLE clear has been decoded to a container that is its
\* own first element or property value
C27_Witness ==
    /\ pc = "done"
    /\ Intact
    /\ encoded # <<>>
    /\ ~NoCycleBit
    /\ decoder.result.t = "ref"
    /\ HoldsAt(decoder.heap[decoder.result.v], 1, decoder.result.v)
    /\ decoder.result.v \in {decoder.object_refs[p] : p \in DOMAIN decoder.object_refs}

\* graphs with self-references and cycles, and graphs without
CyclicExamples ==
    << [heap |-> <<Container("arr", <<>>, <<VRef(1)>>)>>, root |-> VRef(1)],
       [heap |-> <<Container("obj", <<Key_a, Key_b>>, <<VRef(1), VRef(1)>>)>>,
        root |-> VRef(1)],
       [heap |-> <<Container("arr", <<>>, <<VRef(2), VRef(1)>>),
                   Container("obj", <<Key_a, Key_b>>, <<VRef(1), VRef(2)>>)>>,
        root |-> VRef(1)],
       [heap |-> <<Container("arr", <<>>, <<VRef(2), VRef(2), VRef(3)>>),
                   Container("arr", <<>>, <<VRef(3)>>),
                   Container("arr", <<>>, <<VRef(1), VRef(2), VRef(3)>>)>>,
        root |-> VRef(1)],
       [heap |-> <<Container("obj", <<Key_a>>, <<VRef(2)>>),
                   Container("obj", <<Key_a>>, <<VRef(3)>>),
                   Container("obj", <<Key_a, Key_b>>, <<VBool(TRUE), VRef(2)>>)>>,
        root |-> VRef(1)],
       [heap |-> <<Container("arr", <<>>, <<VRef(2)>>),
                   Container("arr", <<>>, <<VRef(3)>>),
                   Container("arr", <<>>, <<>>)>>,
        root |-> VRef(1)],
       [heap |-> CycleExample, root |-> VRef(1)],
       [heap |-> SharedExample, root |-> VRef(1)],
       [heap |-> <<>>, root |-> VBool(TRUE)] >>

InitEncode ==
    /\ \E i \in 1..Len(CyclicExamples) :
          heap = CyclicExamples[i].heap /\ root = CyclicExamples[i].root
    /\ pc = "ready"
    /\ count = NumOf(0)
    /\ Idle

\* encode is one synchronous call: once it is entered, the loops of
\* serializeObject and serializeArray run on until they return or throw
SpecEncode == InitEncode /\ [][NextWalk]_vars /\ WF_vars(SerializeNext)

\* the slots the walk serializes for container id
BodySize(id) ==
    IF Projection(heap, id) = 0 THEN 0 ELSE Len(OwnKeys(heap[Projection(heap, id)]))

RECURSIVE SumOver(_, _)
\* the sum of f[x] over the set S
SumOver(f, S) ==
    IF S = {} THEN 0
    ELSE LET x == CHOOSE y \in S : TRUE IN f[x] + SumOver(f, S \ {x})

\* the work the walk of encoder e has left: the tag and the body of every
\* container that is not in the identity map, and the slots left in the
\* loops in progress
WorkLeft(e) ==
    SumOver([id \in 1..Len(heap) |-> 1 + BodySize(id)],
            (1..Len(heap)) \ DOMAIN e.object_refs)
    + SumOver([k \in 1..Len(e.stack) |->
                  Len(OwnKeys(heap[e.stack[k].src])) - e.stack[k].i + 1],
              1..Len(e.stack))

\* the loops in progress are those of distinct containers
NoBodyTwice(e) ==
    \A j, k \in 1..Len(e.stack) : e.stack[j].id = e.stack[k].id => j = k

WalkProgress ==
    /\ NoBodyTwice(encoder')
    /\ Cardinality(DOMAIN encoder'.object_refs) <= Len(heap)
    /\ (pc = "walk" /\ encoder'.err = "") => WorkLeft(encoder') < WorkLeft(encoder)
    /\ (pc = "walk" /\ encoder'.err = "") =>
          \A k \in 1..Len(encoder'.stack) :
             k > Len(encoder.stack) => encoder'.stack[k].id \notin DOMAIN encoder.object_refs

(***************************************************************************)
(* C29: encode terminates on every finite value graph, graphs with cycles  *)
(* and self-references included: a container is registered before the walk *)
(* descends into it, so no step enters the body of a container that is     *)
(* already in the identity map, the containers emitted by value are at     *)
(* most the containers of the graph, every step of the walk reduces the    *)
(* work left, and a walk that has started ends: serializeComponent returns *)
(* to encode, or throws.                                                   *)
(***************************************************************************)
C29_EncodeTerminates ==
    /\ [][WalkProgress]_vars
    /\ (pc = "walk") ~> (pc \in {"tos", "encodeFailed"})

\* encode has returned the buffer of a graph in which a container holds
\* itself: the walk met the container again and did not enter it
C29_Witness ==
    /\ pc = "encoded"
    /\ encoder.hasCycle
    /\ \E id \in 1..Len(heap) : \E j \in 1..Len(heap[id].vals) : HoldsAt(heap[id], j, id)
    /\ Cardinality(DOMAIN encoder.object_refs) <= Len(heap)

(***************************************************************************)
(* The three encoder/decoder pairs of the sources: the Serializer and      *)
(* Unserializer of JSBON.js ("legacy": counts with a fixed-width prefix,   *)
(* references on four bytes, no NOCYCLE option), the Serializer and        *)
(* Unserializer of the README ("varint") and the Encoder and Decoder       *)
(* modelled above ("current").  Each pair is modelled here as one call of  *)
(* encode and one call of decode, over undefined, null, booleans, strings, *)
(* arrays and objects without functions and without toJSON.                *)
(***************************************************************************)
Pairs == <<"legacy", "varint", "current">>

COUNT16 == 128
COUNT32 == 129

\* DataStream.writeUint32, big endian
writeUint32(n) ==
    <<(n \div 16777216) % 256, (n \div 65536) % 256, (n \div 256) % 256, n % 256>>

\* serializeCount of pair p
PairCount(p, n) ==
    IF p # "legacy" THEN Count(n)
    ELSE IF n <= 127 THEN <<n>>
    ELSE IF n < 65535 THEN <<COUNT16, (n \div 256) % 256, n % 256>>
    ELSE <<COUNT32>> \o writeUint32(n)

\* what follows tag 0x07: writeUint32(refindex) or serializeCount(refindex)
PairReference(p, n) == IF p = "legacy" THEN writeUint32(n) ELSE Count(n)

\* the key of object_refs.set(obj, this.ds.position) in the serializer, for
\* a container whose tag is written at tagpos: the current Encoder reads the
\* position before it writes the tag, the other two after
RegisteredBySerializer(p, tagpos) == IF p = "current" THEN tagpos ELSE tagpos + 1

\* serializeString of pair p, the tag included
PairString(p, e, string) ==
    IF string = <<>> THEN Write(e, <<TAG_STRING_REF>> \o PairCount(p, 0))
    ELSE IF IndexOf(e.string_refs, string) = 0
    THEN Write([e EXCEPT !.string_refs = Append(@, string)],
               <<TAG_STRING_REF>> \o PairCount(p, Len(e.string_refs) + 1))
    ELSE Write(e, <<TAG_STRING_REF>> \o PairCount(p, IndexOf(e.string_refs, string)))

\* the index of property name k, registered when it is new
PairKey(p, e, k) ==
    IF IndexOf(e.string_keys, k) = 0
    THEN Write([e EXCEPT !.string_keys = Append(@, k)], PairCount(p, Len(e.string_keys)))
    ELSE Write(e, PairCount(p, IndexOf(e.string_keys, k) - 1))

\* a container already in object_refs: tag 0x07 and its registered position
PairByReference(p, e, id) ==
    [Write(e, <<TAG_OBJECT_REF>> \o PairReference(p, e.object_refs[id]))
        EXCEPT !.hasCycle = (p # "legacy")]

\* a container not yet in object_refs: its tag, its registration, its count
PairHead(p, h, e, id) ==
    Write([Write(e, <<IF h[id].kind = "arr" THEN TAG_ARRAY ELSE TAG_OBJECT>>)
              EXCEPT !.object_refs = (id :> RegisteredBySerializer(p, Len(e.ds))) @@ @],
          PairCount(p, Len(h[id].vals)))

RECURSIVE PairSerialize(_, _, _, _)
RECURSIVE PairSlots(_, _, _, _, _)

\* the loop of serializeObject and serializeArray, from slot i on
PairSlots(p, h, e, id, i) ==
    IF e.err # "" \/ i > Len(h[id].vals) THEN e
    ELSE IF h[id].kind = "arr"
    THEN PairSlots(p, h, PairSerialize(p, h, e, h[id].vals[i]), id, i + 1)
    ELSE PairSlots(p, h, PairSerialize(p, h, PairKey(p, e, h[id].keys[i]), h[id].vals[i]),
                   id, i + 1)

\* serializeComponent of pair p
PairSerialize(p, h, e, v) ==
    IF v.t = "undef" THEN Write(e, <<TAG_UNDEFINED>>)
    ELSE IF v.t = "null" THEN Write(e, <<TAG_NULL>>)
    ELSE IF v.t = "bool"
    THEN Write(e, <<IF v.v THEN TAG_BOOLEAN_TRUE ELSE TAG_BOOLEAN_FALSE>>)
    ELSE IF v.t = "str" THEN PairString(p, e, v.v)
    ELSE IF v.t # "ref" THEN [e EXCEPT !.err = "unmodelled"]
    ELSE IF v.v \in DOMAIN e.object_refs THEN PairByReference(p, e, v.v)
    ELSE PairSlots(p, h, PairHead(p, h, e, v.v), v.v, 1)

\* serializeTOS of pair p, without checksum
PairTOS(p, e) ==
    <<MAJOR_VERSION + (IF p # "legacy" /\ ~e.hasCycle THEN OPTION_NOCYCLE ELSE 0)>>
        \o PairCount(p, Len(e.string_keys)) \o CStrings(e.string_keys)
        \o PairCount(p, Len(e.string_refs)) \o CStrings(e.string_refs)
        \o e.ds

\* a count read as r off the stream, as a 32-bit word
WordOf(r) ==
    [err |-> r.err,
     w |-> IF r.err # "" THEN <<0, 0, 0, 0>>
           ELSE [i \in 1..(4 - Len(r.v)) |-> 0] \o r.v,
     pos |-> r.pos]

\* unserializeCount of pair p at pos, tag being the byte read there
PairReadCount(p, buf, pos, tag) ==
    IF p # "legacy" THEN unserializeCount(buf, pos)
    ELSE IF tag.err # "" THEN [err |-> tag.err, w |-> <<0, 0, 0, 0>>, pos |-> pos]
    ELSE IF tag.v <= 127 THEN [err |-> "", w |-> <<0, 0, 0, tag.v>>, pos |-> tag.pos]
    ELSE IF tag.v = COUNT16 THEN WordOf(readBytes(buf, tag.pos, 2))
    ELSE IF tag.v = COUNT32 THEN WordOf(readBytes(buf, tag.pos, 4))
    ELSE [err |-> "count", w |-> <<0, 0, 0, 0>>, pos |-> tag.pos]

\* what follows tag 0x07: readUint32() or unserializeCount()
PairReadReference(p, buf, pos) ==
    IF p = "legacy" THEN WordOf(readBytes(buf, pos, 4)) ELSE unserializeCount(buf, pos)

\* the number a count word stands for: readUint16 and readUint32 are
\* unsigned, the varint is accumulated with | and << and is signed
PairInt(p, w) ==
    IF p = "legacy" THEN w[1] * 16777216 + w[2] * 65536 + w[3] * 256 + w[4]
    ELSE WordToInt(w)

\* one string table of the header of pair p
PairTable(p, buf, pos) ==
    TableAfterCount(buf, pos, PairReadCount(p, buf, pos, readUint8(buf, pos)))

PairKeysOfTOS(p, d, buf, hasCrc, crc, keys) ==
    IF keys.err # "" THEN Throw([d EXCEPT !.pos = keys.pos], keys.err)
    ELSE StringRefsOfTOS([d EXCEPT !.string_keys = keys.table], buf, hasCrc, crc,
                         PairTable(p, buf, keys.pos))

\* the legacy Unserializer has no hasCycle and never looks at OPTION_NOCYCLE
PairOptionsOfTOS(p, d, buf, version, crc) ==
    IF crc.err # "" THEN Throw(d, crc.err)
    ELSE PairKeysOfTOS(p,
                       [d EXCEPT !.hasCycle = \/ p = "legacy"
                                              \/ (version \div OPTION_NOCYCLE) % 2 = 0],
                       buf, (version \div OPTION_CRC32) % 2 = 1, crc.v,
                       PairTable(p, buf, crc.pos))

\* unserializeTOS of pair p, version being the first byte
PairUnserializeTOS(p, buf, version) ==
    IF version.err # "" THEN Throw(NewDecoder, version.err)
    ELSE IF VersionMismatch(version.v)
    THEN Throw([NewDecoder EXCEPT !.pos = version.pos], "version")
    ELSE PairOptionsOfTOS(p, [NewDecoder EXCEPT !.pos = version.pos], buf, version.v,
                          IF (version.v \div OPTION_CRC32) % 2 = 1
                          THEN readBytes(buf, version.pos, 4)
                          ELSE [err |-> "", v |-> <<>>, pos |-> version.pos])

\* variant: every Unserializer registers at the position of the tag
RegisteredByUnserializer_atTag(p, pos) == pos - 1

\* the key of object_refs.set(position, obj) in the unserializer, pos being
\* the position after the tag: the current Decoder registers position - 1,
\* the other two the position itself
RegisteredByUnserializer(p, pos) == IF p = "current" THEN pos - 1 ELSE pos

\* the container is registered: always in the legacy Unserializer, under
\* hasCycle in the other two
PairRegister(p, d, kind) ==
    [d EXCEPT !.heap = Append(@, Container(kind, <<>>, <<>>)),
              !.object_refs =
                  IF p = "legacy" \/ d.hasCycle
                  THEN (RegisteredByUnserializer(p, d.pos) :> (Len(d.heap) + 1)) @@ @
                  ELSE @]

\* index > this.string_refs.size: string_refs is an Array in the legacy
\* Unserializer, its size is undefined and the comparison is false
StringOutOfBound(p, index, table) == p # "legacy" /\ index > table.size

\* index >= this.string_keys.size, likewise
KeyOutOfBound(p, index, table) == p # "legacy" /\ index >= table.size

\* unserializeString, c being the count read after the tag
PairStringOf(p, d, c) ==
    IF c.err # "" THEN Throw(d, c.err)
    ELSE IF PairInt(p, c.w) = 0 THEN [d EXCEPT !.pos = c.pos, !.result = VStr(<<>>)]
    ELSE IF StringOutOfBound(p, PairInt(p, c.w), d.string_refs) THEN Throw(d, "strref")
    ELSE IF TableGet(d.string_refs, PairInt(p, c.w) - 1) = <<0 - 1>>
    THEN [d EXCEPT !.pos = c.pos, !.result = VUndef]
    ELSE [d EXCEPT !.pos = c.pos,
                   !.result = VStr(TableGet(d.string_refs, PairInt(p, c.w) - 1))]

\* the property name of index i; obj[undefined] names the property "undefined"
PairKeyOf(table, i) ==
    IF TableGet(table, i) = <<0 - 1>> THEN KeyUndefined ELSE TableGet(table, i)

\* tag 0x07, c being the reference read after it
PairLookup(p, d, c) ==
    IF c.err # "" THEN Throw(d, c.err)
    ELSE IF (PairInt(p, c.w) + d.offset) \in DOMAIN d.object_refs
    THEN [d EXCEPT !.pos = c.pos,
                   !.result = VRef(d.object_refs[PairInt(p, c.w) + d.offset])]
    ELSE Throw(d, "ref")

RECURSIVE PairComponent(_, _, _, _)
RECURSIVE PairLoop(_, _, _, _, _)

\* the value read by the loop is stored under key, and the loop goes on
PairStore(p, d, buf, id, left, key) ==
    IF d.err # "" THEN d
    ELSE PairLoop(p, [d EXCEPT !.heap[id] = Assign(@, key, d.result)], buf, id, left - 1)

\* one property of unserializeObject, c being the index of its name
PairProperty(p, d, buf, id, left, c) ==
    IF c.err # "" THEN Throw(d, c.err)
    ELSE IF KeyOutOfBound(p, PairInt(p, c.w), d.string_keys) THEN Throw(d, "propref")
    ELSE PairStore(p, PairComponent(p, [d EXCEPT !.pos = c.pos], buf, readUint8(buf, c.pos)),
                   buf, id, left, PairKeyOf(d.string_keys, PairInt(p, c.w)))

\* the loop of unserializeObject and unserializeArray, left slots to read
PairLoop(p, d, buf, id, left) ==
    IF d.err # "" THEN d
    ELSE IF left <= 0 THEN [d EXCEPT !.result = VRef(id)]
    ELSE IF d.heap[id].kind = "arr"
    THEN PairStore(p, PairComponent(p, d, buf, readUint8(buf, d.pos)), buf, id, left, <<>>)
    ELSE PairProperty(p, d, buf, id, left,
                      PairReadCount(p, buf, d.pos, readUint8(buf, d.pos)))

\* unserializeObject and unserializeArray: d holds the new container, already
\* registered, as its last one; c is the count read after the tag
PairContainer(p, d, buf, c) ==
    IF c.err # "" THEN Throw(d, c.err)
    ELSE PairLoop(p, [d EXCEPT !.pos = c.pos], buf, Len(d.heap), PairInt(p, c.w))

\* unserializeComponent of pair p, tag being the byte read at d.pos
PairComponent(p, d, buf, tag) ==
    IF tag.err # "" THEN Throw(d, tag.err)
    ELSE IF tag.v \in {TAG_OBJECT, TAG_ARRAY}
    THEN PairContainer(p,
                       PairRegister(p, [d EXCEPT !.pos = tag.pos],
                                    IF tag.v = TAG_ARRAY THEN "arr" ELSE "obj"),
                       buf, PairReadCount(p, buf, tag.pos, readUint8(buf, tag.pos)))
    ELSE IF tag.v = TAG_OBJECT_REF
    THEN PairLookup(p, [d EXCEPT !.pos = tag.pos], PairReadReference(p, buf, tag.pos))
    ELSE IF tag.v = TAG_STRING_REF
    THEN PairStringOf(p, [d EXCEPT !.pos = tag.pos],
                      PairReadCount(p, buf, tag.pos, readUint8(buf, tag.pos)))
    ELSE IF tag.v = TAG_BOOLEAN_TRUE THEN [d EXCEPT !.pos = tag.pos, !.result = VBool(TRUE)]
    ELSE IF tag.v = TAG_BOOLEAN_FALSE THEN [d EXCEPT !.pos = tag.pos, !.result = VBool(FALSE)]
    ELSE IF tag.v = TAG_NULL THEN [d EXCEPT !.pos = tag.pos, !.result = VNull]
    ELSE IF tag.v = TAG_UNDEFINED THEN [d EXCEPT !.pos = tag.pos, !.result = VUndef]
    ELSE Throw([d EXCEPT !.pos = tag.pos], "unmodelled")

\* decode of pair p: the header, this.offset = this.ds.position, the value
PairDecodeOf(p, d, buf) ==
    IF d.err # "" THEN d
    ELSE PairComponent(p, [d EXCEPT !.offset = d.pos], buf, readUint8(buf, d.pos))

\* graphs whose containers are reached more than once: the first seven of
\* CyclicExamples, an object whose two properties hold one array, and a
\* cycle through an array that also holds strings
PairExamples ==
    SubSeq(CyclicExamples, 1, 7)
    \o << [heap |-> <<Container("obj", <<Key_a, Key_b>>, <<VRef(2), VRef(2)>>),
                      Container("arr", <<>>, <<VBool(TRUE), VNull, VBool(FALSE)>>)>>,
           root |-> VRef(1)],
          [heap |-> <<Container("arr", <<>>, <<VStr(Key_a), VStr(<<>>), VRef(2), VStr(Key_a)>>),
                      Container("obj", <<Key_b, Key_a>>, <<VUndef, VRef(1)>>)>>,
           root |-> VRef(1)] >>

\* streams that hold an index the tables do not have: n names, m strings,
\* and a string of index i or a property whose name has index i; every
\* count is below 128 and is the same byte in the three formats
PairCrafts == [k : {"str", "prop"}, i : {NumOf(0), NumOf(1), NumOf(2), NumOf(4)}]

PairStreams ==
    {CraftedStream(MAJOR_VERSION, n, m, CraftedPayload(c)) :
        n \in 0..1, m \in 0..1, c \in PairCrafts}

\* options.pair names the encoder/decoder pair that is loaded; the caller
\* either holds a graph to encode or a stream to decode
InitPairs ==
    /\ \E i \in 1..Len(Pairs) : options = [hasCRC |-> FALSE, pair |-> Pairs[i]]
    /\ \/ /\ \E i \in 1..Len(PairExamples) :
               heap = PairExamples[i].heap /\ root = PairExamples[i].root
          /\ binary = <<>>
          /\ pc = "ready"
       \/ /\ heap = <<>>
          /\ \E b \in PairStreams : root = VBytes(b) /\ binary = b
          /\ pc = "received"
    /\ encoder = NewEncoder
    /\ encoded = <<>>
    /\ decoder = NewDecoder
    /\ count = NumOf(0)
    /\ countBytes = <<>>
    /\ countRead = NoCount

\* encode(obj) of the loaded pair
PairEncode ==
    /\ pc = "ready"
    /\ encoder' = PairSerialize(options.pair, heap, NewEncoder, root)
    /\ encoded' = IF encoder'.err # "" THEN <<>> ELSE PairTOS(options.pair, encoder')
    /\ pc' = IF encoder'.err # "" THEN "encodeFailed" ELSE "encoded"
    /\ UNCHANGED <<heap, root, options, binary, decoder, count, countBytes, countRead>>

\* decode(binary) of the loaded pair
PairDecode ==
    /\ pc = "received"
    /\ \E d \in {PairDecodeOf(options.pair,
                              PairUnserializeTOS(options.pair, binary, readUint8(binary, 0)),
                              binary)} :
          /\ decoder' = [d EXCEPT !.done = (d.err = "")]
          /\ pc' = IF d.err = "" THEN "done" ELSE "failed"
    /\ UNCHANGED <<heap, root, options, encoder, encoded, binary, count, countBytes, countRead>>

NextPairs == PairEncode \/ Transmit \/ PairDecode

SpecPairs == InitPairs /\ [][NextPairs]_vars

\* position q of the decoded buffer holds the tag byte of a container
AtTag(q) == q < Len(binary) /\ binary[q + 1] \in {TAG_OBJECT, TAG_ARRAY}

\* position q of the decoded buffer follows the tag byte of a container
AfterTag(q) == q >= 1 /\ AtTag(q - 1)

\* the positions the encoder registered, as positions of the whole buffer
SerializerPoints == {encoder.object_refs[id] + PayloadStart : id \in DOMAIN encoder.object_refs}

\* the decoder registered exactly the positions the encoder registered, each
\* for the copy of the container the encoder registered there
SamePoints ==
    /\ DOMAIN decoder.object_refs = SerializerPoints
    /\ \A id \in DOMAIN encoder.object_refs :
          <<id, decoder.object_refs[encoder.object_refs[id] + PayloadStart]>>
              \in Corresponding(heap, root, decoder.heap, decoder.result)

\* every 0x07 of a container body led to the copy of the container it named
BackEdgesResolved ==
    /\ StructEq(heap, root, decoder.heap, decoder.result)
    /\ IdentityKept(heap, root, decoder.heap, decoder.result)
    /\ IdentityKept(decoder.heap, decoder.result, heap, root)

(***************************************************************************)
(* C28: in each of the three encoder/decoder pairs, the encoder and the    *)
(* decoder register a container at the same point, both at the position of *)
(* its tag byte or both at the position after it, so that a stream written *)
(* by the encoder of a pair is decoded by the decoder of that pair, and    *)
(* every reference in it yields the copy of the container it was written   *)
(* for.  A decoder that registers (the legacy one always, the others when  *)
(* NOCYCLE is clear) registers exactly the positions the encoder did.      *)
(***************************************************************************)
C28_SameRegistrationPoint ==
    (Finished /\ Intact /\ encoded # <<>>)
        => /\ pc = "done"
           /\ BackEdgesResolved
           /\ \/ \A q \in SerializerPoints \cup DOMAIN decoder.object_refs : AtTag(q)
              \/ \A q \in SerializerPoints \cup DOMAIN decoder.object_refs : AfterTag(q)
           /\ (options.pair = "legacy" \/ ~NoCycleBit) => SamePoints

C28_Witness ==
    /\ pc = "done"
    /\ Intact
    /\ options.pair = "legacy"
    /\ heap = CycleExample
    /\ decoder.result.t = "ref"
    /\ \E q \in DOMAIN decoder.object_refs :
          /\ AfterTag(q)
          /\ ~AtTag(q)
          /\ decoder.object_refs[q] = decoder.result.v
    /\ \E c \in 1..Len(decoder.heap) : \E j \in 1..Len(decoder.heap[c].vals) :
          /\ decoder.heap[c].vals[j].t = "ref"
          /\ decoder.heap[c].vals[j].v = decoder.result.v

\* the buffer decoded is a crafted stream with n names and m strings whose
\* payload is a property-name index >= n or a string index > m
IndexBeyondTable ==
    \E n \in 0..1 : \E m \in 0..1 : \E c \in PairCrafts :
        /\ binary = CraftedStream(MAJOR_VERSION, n, m, CraftedPayload(c))
        /\ \/ c.k = "prop" /\ c.i.lo >= n
           \/ c.k = "str" /\ c.i.lo > m

(***************************************************************************)
(* C30: in the legacy Unserializer, a property-name index that is >= the   *)
(* number of names read from the name table, or a string index that is >   *)
(* the number of strings read from the string table, makes decode throw    *)
(* "Out of bound reference index"; decode returns no object with a wrong   *)
(* key and no value that is not a string.                                  *)
(***************************************************************************)
C30_LegacyOutOfBound ==
    (options.pair = "legacy" /\ Finished /\ IndexBeyondTable)
        => /\ pc = "failed"
           /\ decoder.err \in {"strref", "propref"}
====
